---- MODULE Spec2Model ----
(***************************************************************************)
(* Account lifecycle of the user service (app/users/services.py): the      *)
(* users and roles tables, the one-time verification and password-reset    *)
(* codes with their expiry timestamps, and the handlers that read and      *)
(* write them.  A table is a sequence of rows, a row's id is its index.    *)
(* A nullable column holds <<>> (NULL) or <<v>>.  Time is in minutes.      *)
(***************************************************************************)
EXTENDS Integers, Sequences, FiniteSets, TLC

VARIABLES users, roles, now, resp, sess

vars == <<users, roles, now, resp, sess>>

----------------------------------------------------------------------------
(* Bounds of the model *)

\* the clock stops at MaxNow minutes
MaxNow == 20
\* one step of the clock, in minutes
TickMinutes == 5
\* one-time codes are drawn from the codes dddddd, d in 1..MaxDigit
MaxDigit == 2
\* rows the users table may hold
MaxUsers == 3
\* rows the roles table may hold
MaxRoles == 7

(* Program constants *)
VERIFICATION_CODE_EXPIRE_MINUTES == 10
PASSWORD_RESET_CODE_EXPIRE_MINUTES == 15
CODE_LENGTH == 6
\* app/core/config.py: lifetime of an access token, in minutes
ACCESS_TOKEN_EXPIRE_MINUTES == 30

----------------------------------------------------------------------------
(* Inputs *)

Sessions == {"s1", "s2"}

NULL == <<>>
Some(v) == <<v>>
IsNull(x) == x = NULL
Val(x) == x[1]

----------------------------------------------------------------------------
(* app/core/security.py *)

\* pwd_context.hash: a digest that records what it was derived from
hash_password(password) == <<"$2b$", password>>

verify_password(plain_password, hashed_password) ==
    hashed_password = <<"$2b$", plain_password>>

\* the codes secrets.choice can produce, within the bound on digits
generate_verification_code(length) ==
    {[i \in 1..length |-> d] : d \in 1..MaxDigit}

Codes == generate_verification_code(CODE_LENGTH)

----------------------------------------------------------------------------
(* str.lower() on the role names the requests use *)

LowerTable == ("Admin" :> "admin") @@ ("Nurse" :> "nurse") @@ ("PATIENT" :> "patient")

lower(s) == IF s \in DOMAIN LowerTable THEN LowerTable[s] ELSE s

----------------------------------------------------------------------------
(* Responses: the HTTP status and the detail / message of the last request *)

\* sms: what the Notification Gateway did in the request (none, sent, failed);
\* commit: what db.commit() did (none, ok, failed);
\* text: the number and the code handed to the gateway, NULL when it was not called
Response(op, status, detail, sms, commit) ==
    [op |-> op, status |-> status, detail |-> detail, sms |-> sms, commit |-> commit,
     text |-> NULL]

\* the gateway called with a code other than the one stored
send_sms_other_code(r, phone_number, code) ==
    [r EXCEPT !.text = Some(<<phone_number, [i \in 1..Len(code) |-> 0]>>)]

\* send_verification_code / send_password_reset_code: the message holds the code
send_sms(r, phone_number, code) == [r EXCEPT !.text = Some(<<phone_number, code>>)]

SmsOutcome(sms_ok) == IF sms_ok THEN "sent" ELSE "failed"

GenericResetMessage == "If the phone number exists, a reset code has been sent"

----------------------------------------------------------------------------
(* Rows *)

\* models.Role
Role(name, display_name, description, is_system_role) ==
    [name |-> name, display_name |-> display_name, description |-> description,
     is_system_role |-> is_system_role, is_active |-> TRUE]

\* initialize_default_roles on an empty roles table
default_roles ==
    << Role("admin", "Administrator", "System administrator with full access", TRUE),
       Role("healthcare_professional", "Healthcare Professional",
            "Medical professionals providing healthcare services", TRUE),
       Role("patient", "Patient", "Patient receiving healthcare services", TRUE),
       Role("caretaker", "Care Taker", "Person taking care of a patient", TRUE),
       Role("pharmacist", "Pharmacist",
            "Dispenses medications and provides pharmaceutical care", TRUE) >>

\* the row created inactive
NewUser_inactive(phone, hashed, code, expires_at) ==
    [phone_number |-> phone,
     password |-> hashed,
     is_active |-> FALSE,
     is_verified |-> FALSE,
     verification_code |-> Some(code),
     verification_code_expires |-> Some(expires_at),
     password_reset_token |-> NULL,
     password_reset_expires |-> NULL,
     roles |-> <<>>]

\* models.User as create_user builds it
NewUser(phone, hashed, code, expires_at) ==
    [phone_number |-> phone,
     password |-> hashed,
     is_active |-> TRUE,
     is_verified |-> FALSE,
     verification_code |-> Some(code),
     verification_code_expires |-> Some(expires_at),
     password_reset_token |-> NULL,
     password_reset_expires |-> NULL,
     roles |-> <<>>]

UserIds == 1..Len(users)
RoleIds == 1..Len(roles)

Min(S) == CHOOSE x \in S : \A y \in S : x <= y

\* db.query(User).filter(phone_number == p).first(): the row's id, 0 for None
get_user_by_phone(phone) ==
    LET hits == {i \in UserIds : users[i].phone_number = phone}
    IN  IF hits = {} THEN 0 ELSE Min(hits)

\* db.query(Role).filter(name == role_name.lower()).first(): the row's id, 0 for None
get_role_by_name(role_name) ==
    LET hits == {i \in RoleIds : roles[i].name = lower(role_name)}
    IN  IF hits = {} THEN 0 ELSE Min(hits)

InSeq(x, s) == \E i \in 1..Len(s) : s[i] = x

----------------------------------------------------------------------------
(* Store constraints (app/users/models.py) *)

\* the column without its unique constraint
phone_unique_dropped(phone) == TRUE

\* users.phone_number is unique=True: the INSERT of a second row fails
phone_unique(phone) == \A i \in UserIds : users[i].phone_number # phone

\* user_roles has the primary key (user_id, role_id)
NoDuplicates(s) == \A i, j \in 1..Len(s) : s[i] = s[j] => i = j

----------------------------------------------------------------------------
(* assign_roles_to_user: the loop over role_names, then user.roles.extend *)

RECURSIVE roles_to_assign(_, _, _)
roles_to_assign(held, role_names, acc) ==
    IF role_names = <<>> THEN [err |-> "none", add |-> acc]
    ELSE LET role == get_role_by_name(Head(role_names))
         IN  IF role = 0 THEN [err |-> "not_found", add |-> acc]
             ELSE IF ~roles[role].is_active THEN [err |-> "inactive", add |-> acc]
             ELSE roles_to_assign(held, Tail(role_names),
                                  IF InSeq(role, held) THEN acc ELSE Append(acc, role))

\* the loop without its "if role not in user.roles"
assign_roles_to_user_unfiltered(held, role_names) ==
    LET r == roles_to_assign(<<>>, role_names, <<>>)
    IN  [err |-> r.err, roles |-> held \o r.add]

assign_roles_to_user(held, role_names) ==
    LET r == roles_to_assign(held, role_names, <<>>)
    IN  [err |-> r.err, roles |-> held \o r.add]

----------------------------------------------------------------------------
(* create_user *)

\* the request's role names taken as they come, without the default
requested_roles_as_given(role_names) == role_names

\* the request's role names ignored: every registration takes the default
requested_roles_default_only(role_names) == <<"patient">>

\* "if not user_data.role_names": None and [] both take the default
requested_roles(role_names) ==
    IF role_names = <<>> THEN <<"patient">> ELSE role_names

\* lines 20-29: the existence pre-check
create_user_precheck(phone) == get_user_by_phone(phone) = 0

AlreadyExists == "User with phone number already exists"

\* the gateway's exception let through to "except Exception"
user_returned_unless_sms_failed(sms) ==
    IF sms = "failed"
    THEN Response("create_user", 500, "An error occurred while creating user", sms, "ok")
    ELSE Response("create_user", 201, "created", sms, "ok")

\* lines 63-75: the gateway's exception is logged, "return user" follows
user_returned(sms) == Response("create_user", 201, "created", sms, "ok")

\* db.rollback() taken as keeping the rows the transaction had flushed
rollback_keeps_flushed(flushed) == flushed

\* db.rollback(): the rows flushed by the transaction are gone, the table is
\* the committed one
rollback(flushed) == users

\* lines 31-93: from the INSERT to the response; [users, resp] after it
create_user_insert(phone, password, role_names, code, sms_ok, db_ok) ==
    LET expires_at == now + VERIFICATION_CODE_EXPIRE_MINUTES
        user == NewUser(phone, hash_password(password), code, expires_at)
        assigned == assign_roles_to_user(user.roles, requested_roles(role_names))
    IN  IF ~phone_unique(phone)
        THEN \* db.flush() raises IntegrityError: rollback, 400
             [users |-> users,
              resp |-> Response("create_user", 400, AlreadyExists, "none", "failed")]
        ELSE IF assigned.err # "none"
        THEN \* HTTPException from assign_roles_to_user lands in "except Exception"
             [users |-> rollback(Append(users, user)),
              resp |-> Response("create_user", 500,
                                "An error occurred while creating user", "none", "none")]
        ELSE IF ~NoDuplicates(assigned.roles)
        THEN \* IntegrityError on user_roles, whose text holds "unique"
             [users |-> users,
              resp |-> Response("create_user", 400, AlreadyExists, "none", "failed")]
        ELSE IF ~db_ok
        THEN [users |-> users,
              resp |-> Response("create_user", 500,
                                "An error occurred while creating user", "none", "failed")]
        ELSE \* committed; the SMS failure is logged and swallowed
             [users |-> Append(users, [user EXCEPT !.roles = assigned.roles]),
              resp |-> send_sms(user_returned(SmsOutcome(sms_ok)), phone, code)]

\* create_user run by one request with no other request in between
Register(phone, password, role_names, code, sms_ok, db_ok) ==
    /\ Len(users) < MaxUsers
    /\ IF ~create_user_precheck(phone)
       THEN /\ resp' = Response("create_user", 400, AlreadyExists, "none", "none")
            /\ users' = users
       ELSE LET r == create_user_insert(phone, password, role_names, code, sms_ok, db_ok)
            IN  /\ users' = r.users
                /\ resp' = r.resp
    /\ UNCHANGED <<roles, now, sess>>

----------------------------------------------------------------------------
(* send_account_verification_code *)

\* the new code under the old expiry
with_verification_code_old_expiry(user, code, expires_at) ==
    [user EXCEPT !.verification_code = Some(code)]

\* lines 362-364
with_verification_code(user, code, expires_at) ==
    [user EXCEPT !.verification_code = Some(code),
                 !.verification_code_expires = Some(expires_at)]

SendVerificationCode(phone, code, sms_ok, db_ok) ==
    LET u == get_user_by_phone(phone)
        op == "send_account_verification_code"
    IN  /\ IF u = 0
           THEN /\ resp' = Response(op, 404, "User not found", "none", "none")
                /\ users' = users
           ELSE IF users[u].is_verified
           THEN /\ resp' = Response(op, 400, "Account is already verified", "none", "none")
                /\ users' = users
           ELSE IF ~db_ok
           THEN /\ resp' = Response(op, 500, "Failed to send verification code",
                                    "none", "failed")
                /\ users' = users
           ELSE /\ users' = [users EXCEPT ![u] =
                       with_verification_code(@, code,
                                              now + VERIFICATION_CODE_EXPIRE_MINUTES)]
                /\ resp' = send_sms(
                              IF sms_ok
                              THEN Response(op, 200, "Verification code sent successfully",
                                            "sent", "ok")
                              ELSE \* the gateway's exception reaches "except Exception"
                                   Response(op, 500, "Failed to send verification code",
                                            "failed", "ok"),
                              phone, code)
        /\ UNCHANGED <<roles, now, sess>>

----------------------------------------------------------------------------
(* verify_account *)

\* the handler without its "already verified" check
already_verified_unchecked(user) == FALSE

\* line 393
already_verified(user) == user.is_verified

\* line 405
verification_code_matches(user, verification_code) ==
    Val(user.verification_code) = verification_code

\* the comparison with <= for <
verification_code_expired_inclusive(user) ==
    /\ ~IsNull(user.verification_code_expires)
    /\ Val(user.verification_code_expires) <= now

\* line 411
verification_code_expired(user) ==
    /\ ~IsNull(user.verification_code_expires)
    /\ Val(user.verification_code_expires) < now

\* the expiry left behind
verified_keeps_expiry(user) ==
    [user EXCEPT !.is_verified = TRUE,
                 !.verification_code = NULL]

\* the code and its expiry left behind
verified_keeps_code(user) == [user EXCEPT !.is_verified = TRUE]

\* lines 418-420
verified(user) ==
    [user EXCEPT !.is_verified = TRUE,
                 !.verification_code = NULL,
                 !.verification_code_expires = NULL]

VerifyAccount(phone, verification_code, db_ok) ==
    LET u == get_user_by_phone(phone)
        op == "verify_account"
    IN  /\ IF u = 0
           THEN /\ resp' = Response(op, 404, "User not found", "none", "none")
                /\ users' = users
           ELSE IF already_verified(users[u])
           THEN /\ resp' = Response(op, 400, "Account is already verified", "none", "none")
                /\ users' = users
           ELSE IF IsNull(users[u].verification_code)
           THEN /\ resp' = Response(op, 400, "No verification code found. Please request a new one.", "none", "none")
                /\ users' = users
           ELSE IF ~verification_code_matches(users[u], verification_code)
           THEN /\ resp' = Response(op, 400, "Invalid verification code", "none", "none")
                /\ users' = users
           ELSE IF verification_code_expired(users[u])
           THEN /\ resp' = Response(op, 400, "Verification code has expired. Please request a new one.", "none", "none")
                /\ users' = users
           ELSE IF ~db_ok
           THEN /\ resp' = Response(op, 500, "Failed to verify account", "none", "failed")
                /\ users' = users
           ELSE /\ users' = [users EXCEPT ![u] = verified(@)]
                /\ resp' = Response(op, 200, "Account verified successfully", "none", "ok")
        /\ UNCHANGED <<roles, now, sess>>

----------------------------------------------------------------------------
(* request_password_reset *)

\* the reset code without its expiry
with_reset_code_no_expiry(user, code, expires_at) ==
    [user EXCEPT !.password_reset_token = Some(code)]

\* the reset code under the verification window
with_reset_code_short_window(user, code, expires_at) ==
    [user EXCEPT !.password_reset_token = Some(code),
                 !.password_reset_expires =
                     Some(now + VERIFICATION_CODE_EXPIRE_MINUTES)]

\* lines 456-458
with_reset_code(user, code, expires_at) ==
    [user EXCEPT !.password_reset_token = Some(code),
                 !.password_reset_expires = Some(expires_at)]

\* "except Exception" re-raising instead of answering the generic message
reset_requested_reraises(sms, commit) ==
    IF sms = "failed" \/ commit = "failed"
    THEN Response("request_password_reset", 500, "Failed to send reset code", sms, commit)
    ELSE Response("request_password_reset", 200, GenericResetMessage, sms, commit)

\* lines 444, 464, 468: the one message of every return
reset_requested(sms, commit) ==
    Response("request_password_reset", 200, GenericResetMessage, sms, commit)

RequestPasswordReset(phone, code, sms_ok, db_ok) ==
    LET u == get_user_by_phone(phone)
        op == "request_password_reset"
    IN  /\ IF u = 0
           THEN /\ resp' = reset_requested("none", "none")
                /\ users' = users
           ELSE IF ~users[u].is_active
           THEN /\ resp' = Response(op, 403, "Account is inactive", "none", "none")
                /\ users' = users
           ELSE IF ~db_ok
           THEN \* "except Exception": rollback, still the generic message
                /\ resp' = reset_requested("none", "failed")
                /\ users' = users
           ELSE /\ users' = [users EXCEPT ![u] =
                       with_reset_code(@, code, now + PASSWORD_RESET_CODE_EXPIRE_MINUTES)]
                /\ resp' = send_sms(reset_requested(SmsOutcome(sms_ok), "ok"), phone, code)
        /\ UNCHANGED <<roles, now, sess>>

----------------------------------------------------------------------------
(* reset_password *)

\* line 491
reset_code_matches(user, reset_code) == Val(user.password_reset_token) = reset_code

\* line 497
reset_code_expired(user) ==
    /\ ~IsNull(user.password_reset_expires)
    /\ Val(user.password_reset_expires) < now

\* the used reset code left pending
with_reset_password_keeps_code(user, new_password) ==
    [user EXCEPT !.password = hash_password(new_password)]

\* the reset that also marks the account verified
with_reset_password_verifying(user, new_password) ==
    [user EXCEPT !.password = hash_password(new_password),
                 !.password_reset_token = NULL,
                 !.password_reset_expires = NULL,
                 !.is_verified = TRUE]

\* lines 504-506
with_reset_password(user, new_password) ==
    [user EXCEPT !.password = hash_password(new_password),
                 !.password_reset_token = NULL,
                 !.password_reset_expires = NULL]

ResetPassword(phone, reset_code, new_password, db_ok) ==
    LET u == get_user_by_phone(phone)
        op == "reset_password"
    IN  /\ IF u = 0
           THEN /\ resp' = Response(op, 404, "User not found", "none", "none")
                /\ users' = users
           ELSE IF IsNull(users[u].password_reset_token)
           THEN /\ resp' = Response(op, 400, "No reset code found. Please request a new one.", "none", "none")
                /\ users' = users
           ELSE IF ~reset_code_matches(users[u], reset_code)
           THEN /\ resp' = Response(op, 400, "Invalid reset code", "none", "none")
                /\ users' = users
           ELSE IF reset_code_expired(users[u])
           THEN /\ resp' = Response(op, 400, "Reset code has expired. Please request a new one.", "none", "none")
                /\ users' = users
           ELSE IF ~db_ok
           THEN /\ resp' = Response(op, 500, "Failed to reset password", "none", "failed")
                /\ users' = users
           ELSE /\ users' = [users EXCEPT ![u] = with_reset_password(@, new_password)]
                /\ resp' = Response(op, 200, "Password reset successfully", "none", "ok")
        /\ UNCHANGED <<roles, now, sess>>

----------------------------------------------------------------------------
(* change_password, for the user the bearer token resolves to *)

\* the assignment of line 532 left out
with_password_kept(user, new_password) == user

\* line 532
with_password(user, new_password) ==
    [user EXCEPT !.password = hash_password(new_password)]

ChangePassword(u, current_password, new_password, db_ok) ==
    LET op == "change_password"
    IN  /\ u \in UserIds
        /\ IF ~verify_password(current_password, users[u].password)
           THEN /\ resp' = Response(op, 400, "Current password is incorrect", "none", "none")
                /\ users' = users
           ELSE IF ~db_ok
           THEN /\ resp' = Response(op, 500, "Failed to change password", "none", "failed")
                /\ users' = users
           ELSE /\ users' = [users EXCEPT ![u] = with_password(@, new_password)]
                /\ resp' = Response(op, 200, "Password changed successfully", "none", "ok")
        /\ UNCHANGED <<roles, now, sess>>

----------------------------------------------------------------------------
(* authenticate_user (the definition of lines 546-567, which replaces the  *)
(* one of lines 96-111) and the login route                                *)

\* the password compared before is_active is looked at
authenticate_user_password_first(phone_number, password) ==
    LET u == get_user_by_phone(phone_number)
    IN  IF u = 0 THEN [kind |-> "None", user |-> 0]
        ELSE IF ~verify_password(password, users[u].password)
        THEN [kind |-> "None", user |-> 0]
        ELSE IF ~users[u].is_active THEN [kind |-> "HTTPException", user |-> 0]
        ELSE [kind |-> "User", user |-> u]

\* the login that also asks for a verified phone
authenticate_user_verified_only(phone_number, password) ==
    LET u == get_user_by_phone(phone_number)
    IN  IF u = 0 THEN [kind |-> "None", user |-> 0]
        ELSE IF ~users[u].is_active THEN [kind |-> "HTTPException", user |-> 0]
        ELSE IF ~verify_password(password, users[u].password)
        THEN [kind |-> "None", user |-> 0]
        ELSE IF ~users[u].is_verified THEN [kind |-> "None", user |-> 0]
        ELSE [kind |-> "User", user |-> u]

\* what the call ends in: None, the user, or the HTTPException of line 559
authenticate_user(phone_number, password) ==
    LET u == get_user_by_phone(phone_number)
    IN  IF u = 0 THEN [kind |-> "None", user |-> 0]
        ELSE IF ~users[u].is_active THEN [kind |-> "HTTPException", user |-> 0]
        ELSE IF ~verify_password(password, users[u].password)
        THEN [kind |-> "None", user |-> 0]
        ELSE [kind |-> "User", user |-> u]

\* routes.py login: the token's "sub" is the id of the user returned
Login(phone_number, password) ==
    LET op == "login"
        a == authenticate_user(phone_number, password)
    IN  /\ resp' = CASE a.kind = "HTTPException"
                          -> Response(op, 403, "Account is inactive. Please contact support.",
                                      "none", "none")
                      [] a.kind = "None"
                          -> Response(op, 401, "Incorrect phone number or password",
                                      "none", "none")
                      [] OTHER
                          -> Response(op, 200, "bearer", "none", "none")
        /\ UNCHANGED <<users, roles, now, sess>>

----------------------------------------------------------------------------
(* app/core/dependencies.py: has_role, get_admin_user *)

\* the check without "and role.is_active"
has_role_ignoring_is_active(user, role_name) ==
    \E k \in 1..Len(user.roles) :
        lower(roles[user.roles[k]].name) = lower(role_name)

has_role(user, role_name) ==
    \E k \in 1..Len(user.roles) :
        /\ lower(roles[user.roles[k]].name) = lower(role_name)
        /\ roles[user.roles[k]].is_active

\* the caller is the user the bearer token resolves to
get_admin_user(caller) == caller \in UserIds /\ has_role(users[caller], "admin")

\* require_role(role_name)(current_user): the user is let through
require_role(role_name, caller) == has_role(users[caller], role_name)

\* an endpoint behind Depends(require_role(role_name)), which does nothing else
RequireRole(caller, role_name) ==
    /\ caller \in UserIds
    /\ resp' = IF require_role(role_name, caller)
               THEN Response("require_role", 200, role_name, "none", "none")
               ELSE Response("require_role", 403, role_name, "none", "none")
    /\ UNCHANGED <<users, roles, now, sess>>

AdminDenied(op) ==
    Response(op, 403, "Access denied. This endpoint requires 'admin' role.", "none", "none")

----------------------------------------------------------------------------
(* create_role, update_role, delete_role behind the admin guard *)

\* the handlers without their system-role guard
system_role_unguarded(role) == FALSE

\* lines 199 and 238: "if role.is_system_role"
system_role(role) == role.is_system_role

\* the column without its unique constraint
role_name_unique_dropped(name) == TRUE

\* roles.name is unique=True: the INSERT of a second row with the name fails
role_name_unique(name) == \A i \in RoleIds : roles[i].name # name

\* lines 157-162: the existence pre-check
create_role_precheck(name) == get_role_by_name(name) = 0

RoleAlreadyExists == "Role already exists"

\* lines 164-182: from models.Role(...) to the response; [roles, resp] after it
create_role_insert(name, display_name, db_ok) ==
    LET op == "create_role"
        role == Role(lower(name), display_name, "", FALSE)
    IN  IF ~role_name_unique(role.name)
        THEN \* db.commit() raises IntegrityError: rollback, 400
             [roles |-> roles,
              resp |-> Response(op, 400, RoleAlreadyExists, "none", "failed")]
        ELSE IF ~db_ok
        THEN \* only IntegrityError is caught: any other failure is the framework's 500
             [roles |-> roles,
              resp |-> Response(op, 500, "Internal Server Error", "none", "failed")]
        ELSE [roles |-> Append(roles, role),
              resp |-> Response(op, 201, "created", "none", "ok")]

\* create_role run by one request with no other request in between
CreateRole(caller, name, display_name, db_ok) ==
    LET op == "create_role"
    IN  /\ caller \in UserIds
        /\ Len(roles) < MaxRoles
        /\ IF ~get_admin_user(caller)
           THEN /\ resp' = AdminDenied(op)
                /\ roles' = roles
           ELSE IF ~create_role_precheck(name)
           THEN /\ resp' = Response(op, 400, RoleAlreadyExists, "none", "none")
                /\ roles' = roles
           ELSE LET r == create_role_insert(name, display_name, db_ok)
                IN  /\ roles' = r.roles
                    /\ resp' = r.resp
        /\ UNCHANGED <<users, now, sess>>

\* lines 205-210: a field given as None is left alone
\* the update that blanks the description it was not given
updated_role_blanking_description(role, display_name, description, is_active) ==
    [role EXCEPT !.display_name = IF IsNull(display_name) THEN @ ELSE Val(display_name),
                 !.description = IF IsNull(description) THEN "" ELSE Val(description),
                 !.is_active = IF IsNull(is_active) THEN @ ELSE Val(is_active)]

\* the update that never writes is_active
updated_role_ignoring_is_active(role, display_name, description, is_active) ==
    [role EXCEPT !.display_name = IF IsNull(display_name) THEN @ ELSE Val(display_name),
                 !.description = IF IsNull(description) THEN @ ELSE Val(description)]

updated_role(role, display_name, description, is_active) ==
    [role EXCEPT !.display_name = IF IsNull(display_name) THEN @ ELSE Val(display_name),
                 !.description = IF IsNull(description) THEN @ ELSE Val(description),
                 !.is_active = IF IsNull(is_active) THEN @ ELSE Val(is_active)]

UpdateRole(caller, role_id, display_name, description, is_active, db_ok) ==
    LET op == "update_role"
    IN  /\ caller \in UserIds
        /\ IF ~get_admin_user(caller)
           THEN /\ resp' = AdminDenied(op)
                /\ roles' = roles
           ELSE IF role_id \notin RoleIds
           THEN /\ resp' = Response(op, 404, "Role not found", "none", "none")
                /\ roles' = roles
           ELSE IF system_role(roles[role_id])
           THEN /\ resp' = Response(op, 403, "Cannot modify system roles", "none", "none")
                /\ roles' = roles
           ELSE IF ~db_ok
           THEN /\ resp' = Response(op, 500, "Error updating role", "none", "failed")
                /\ roles' = roles
           ELSE /\ roles' = [roles EXCEPT ![role_id] =
                       updated_role(@, display_name, description, is_active)]
                /\ resp' = Response(op, 200, "updated", "none", "ok")
        /\ UNCHANGED <<users, now, sess>>

DeleteRole(caller, role_id, db_ok) ==
    LET op == "delete_role"
    IN  /\ caller \in UserIds
        /\ IF ~get_admin_user(caller)
           THEN /\ resp' = AdminDenied(op)
                /\ roles' = roles
           ELSE IF role_id \notin RoleIds
           THEN /\ resp' = Response(op, 404, "Role not found", "none", "none")
                /\ roles' = roles
           ELSE IF system_role(roles[role_id])
           THEN /\ resp' = Response(op, 403, "Cannot delete system roles", "none", "none")
                /\ roles' = roles
           ELSE IF ~db_ok
           THEN /\ resp' = Response(op, 500, "Error deleting role", "none", "failed")
                /\ roles' = roles
           ELSE /\ roles' = [roles EXCEPT ![role_id].is_active = FALSE]
                /\ resp' = Response(op, 200, "Role has been deactivated", "none", "ok")
        /\ UNCHANGED <<users, now, sess>>

----------------------------------------------------------------------------
(* remove_roles_from_user: the loop over role_names, then list.remove each *)

\* the loop passing over a name that finds no role
RECURSIVE roles_to_remove_skipping_unknown(_, _, _)
roles_to_remove_skipping_unknown(held, role_names, acc) ==
    IF role_names = <<>> THEN [err |-> "none", remove |-> acc]
    ELSE LET role == get_role_by_name(Head(role_names))
         IN  roles_to_remove_skipping_unknown(held, Tail(role_names),
                 IF role # 0 /\ InSeq(role, held) THEN Append(acc, role) ELSE acc)

RECURSIVE roles_to_remove(_, _, _)
roles_to_remove(held, role_names, acc) ==
    IF role_names = <<>> THEN [err |-> "none", remove |-> acc]
    ELSE LET role == get_role_by_name(Head(role_names))
         IN  IF role = 0 THEN [err |-> "not_found", remove |-> acc]
             ELSE roles_to_remove(held, Tail(role_names),
                                  IF InSeq(role, held) THEN Append(acc, role) ELSE acc)

\* list.remove(x): without the first x
RemoveFirst(s, x) ==
    LET k == Min({i \in 1..Len(s) : s[i] = x})
    IN  SubSeq(s, 1, k - 1) \o SubSeq(s, k + 1, Len(s))

\* list.remove raises ValueError for a role that is no longer in the list
RECURSIVE remove_each(_, _)
remove_each(held, remove) ==
    IF remove = <<>> THEN [err |-> "none", roles |-> held]
    ELSE IF ~InSeq(Head(remove), held) THEN [err |-> "value_error", roles |-> held]
    ELSE remove_each(RemoveFirst(held, Head(remove)), Tail(remove))

remove_roles_from_user(held, role_names) ==
    LET r == roles_to_remove(held, role_names, <<>>)
    IN  IF r.err # "none" THEN [err |-> r.err, roles |-> held]
        ELSE remove_each(held, r.remove)

----------------------------------------------------------------------------
(* routes.py: assign_user_roles, remove_user_roles *)

AssignUserRoles(caller, user_id, role_names, db_ok) ==
    LET op == "assign_user_roles"
    IN  /\ caller \in UserIds
        /\ IF ~get_admin_user(caller)
           THEN /\ resp' = AdminDenied(op)
                /\ users' = users
           ELSE IF user_id \notin UserIds
           THEN /\ resp' = Response(op, 404, "User not found", "none", "none")
                /\ users' = users
           ELSE LET r == assign_roles_to_user(users[user_id].roles, role_names)
                IN  IF r.err = "not_found"
                    THEN /\ resp' = Response(op, 404, "Role not found", "none", "none")
                         /\ users' = users
                    ELSE IF r.err = "inactive"
                    THEN /\ resp' = Response(op, 400, "Role is not active", "none", "none")
                         /\ users' = users
                    ELSE IF ~NoDuplicates(r.roles) \/ ~db_ok
                    THEN /\ resp' = Response(op, 500, "Error assigning roles",
                                             "none", "failed")
                         /\ users' = users
                    ELSE /\ users' = [users EXCEPT ![user_id].roles = r.roles]
                         /\ resp' = Response(op, 200, "assigned", "none", "ok")
        /\ UNCHANGED <<roles, now, sess>>

RemoveUserRoles(caller, user_id, role_names, db_ok) ==
    LET op == "remove_user_roles"
    IN  /\ caller \in UserIds
        /\ IF ~get_admin_user(caller)
           THEN /\ resp' = AdminDenied(op)
                /\ users' = users
           ELSE IF user_id \notin UserIds
           THEN /\ resp' = Response(op, 404, "User not found", "none", "none")
                /\ users' = users
           ELSE LET r == remove_roles_from_user(users[user_id].roles, role_names)
                IN  IF r.err = "not_found"
                    THEN /\ resp' = Response(op, 404, "Role not found", "none", "none")
                         /\ users' = users
                    ELSE IF r.err = "value_error" \/ ~db_ok
                    THEN /\ resp' = Response(op, 500, "Error removing roles",
                                             "none", "failed")
                         /\ users' = users
                    ELSE /\ users' = [users EXCEPT ![user_id].roles = r.roles]
                         /\ resp' = Response(op, 200, "removed", "none", "ok")
        /\ UNCHANGED <<roles, now, sess>>

----------------------------------------------------------------------------
(* The clock *)

Tick ==
    /\ now + TickMinutes <= MaxNow
    /\ now' = now + TickMinutes
    /\ UNCHANGED <<users, roles, resp, sess>>

----------------------------------------------------------------------------
(* The account lifecycle: one phone registers, the other never does *)

Phone1 == "+250788000111"
Phone2 == "+250788000222"
Phones == {Phone1, Phone2}
Password1 == "Passw0rd!"
Password2 == "N3wPassw0rd"
Passwords == {Password1, Password2}

Idle == [pc |-> "idle"]

\* <<sms_ok, db_ok>>: the gateway is not called when the commit failed
Faults == {<<TRUE, TRUE>>, <<FALSE, TRUE>>, <<TRUE, FALSE>>}

Init ==
    /\ users = <<>>
    /\ roles = default_roles
    /\ now = 0
    /\ resp = Response("none", 0, "", "none", "none")
    /\ sess = [s \in Sessions |-> Idle]

Next ==
    \/ Tick
    \/ \E w \in Passwords, c \in Codes, f \in Faults :
          Register(Phone1, w, <<>>, c, f[1], f[2])
    \/ \E p \in Phones, c \in Codes, f \in Faults :
          SendVerificationCode(p, c, f[1], f[2])
    \/ \E p \in Phones, c \in Codes, db_ok \in BOOLEAN :
          VerifyAccount(p, c, db_ok)
    \/ \E p \in Phones, c \in Codes, f \in Faults :
          RequestPasswordReset(p, c, f[1], f[2])
    \/ \E p \in Phones, c \in Codes, w \in Passwords, db_ok \in BOOLEAN :
          ResetPassword(p, c, w, db_ok)
    \/ \E u \in UserIds, cur \in Passwords, w \in Passwords, db_ok \in BOOLEAN :
          ChangePassword(u, cur, w, db_ok)
    \/ \E p \in Phones, w \in Passwords : Login(p, w)

Spec == Init /\ [][Next]_vars

----------------------------------------------------------------------------
(* The lifecycle with a store whose rows are also written out of band: the  *)
(* service reads users.is_active and never writes FALSE to it               *)

SetInactive(u) ==
    /\ u \in UserIds
    /\ users[u].is_active
    /\ users' = [users EXCEPT ![u].is_active = FALSE]
    /\ UNCHANGED <<roles, now, resp, sess>>

NextStore ==
    \/ Next
    \/ \E u \in UserIds : SetInactive(u)

SpecStore == Init /\ [][NextStore]_vars

----------------------------------------------------------------------------
(* Every operation of the service, the store answering every commit *)

RoleNames == {"Admin", "patient", "nurse", "Nurse"}
DisplayNames == {NULL, Some("Nurse")}
Flags == {NULL, Some(TRUE), Some(FALSE)}
GuardedRoleNames == {"Admin", "PATIENT", "nurse"}

NextAll ==
    \/ \E c \in Codes, rn \in {<<>>, <<"Admin">>, <<"nurse">>} :
          Register(Phone1, Password1, rn, c, TRUE, TRUE)
    \/ \E p \in Phones, c \in Codes : SendVerificationCode(p, c, TRUE, TRUE)
    \/ \E p \in Phones, c \in Codes : VerifyAccount(p, c, TRUE)
    \/ \E p \in Phones, c \in Codes : RequestPasswordReset(p, c, TRUE, TRUE)
    \/ \E p \in Phones, c \in Codes : ResetPassword(p, c, Password2, TRUE)
    \/ \E u \in UserIds, cur \in Passwords : ChangePassword(u, cur, Password1, TRUE)
    \/ \E u \in UserIds, n \in RoleNames : CreateRole(u, n, "Nurse", TRUE)
    \/ \E u \in UserIds, r \in 1..MaxRoles, d \in DisplayNames, a \in Flags :
          UpdateRole(u, r, d, NULL, a, TRUE)
    \/ \E u \in UserIds, r \in 1..MaxRoles : DeleteRole(u, r, TRUE)
    \/ \E u \in UserIds, t \in 1..MaxUsers, n \in RoleNames :
          AssignUserRoles(u, t, <<n>>, TRUE)
    \/ \E u \in UserIds, t \in 1..MaxUsers, n \in RoleNames :
          RemoveUserRoles(u, t, <<n>>, TRUE)
    \/ \E u \in UserIds, n \in GuardedRoleNames : RequireRole(u, n)

SpecAll == Init /\ [][NextAll]_vars

----------------------------------------------------------------------------
(* Concurrent registrations: each request runs create_user in a session of  *)
(* its own, the pre-check (lines 20-29) and the INSERT (lines 49-61) being   *)
(* separate statements against the store                                     *)

RegisterBegin(s, phone, password, role_names, code) ==
    /\ sess[s] = Idle
    /\ Len(users) < MaxUsers
    /\ IF ~create_user_precheck(phone)
       THEN /\ resp' = Response("create_user", 400, AlreadyExists, "none", "none")
            /\ sess' = sess
       ELSE /\ sess' = [sess EXCEPT ![s] =
                   [pc |-> "insert", phone |-> phone, password |-> password,
                    role_names |-> role_names, code |-> code]]
            /\ resp' = resp
    /\ UNCHANGED <<users, roles, now>>

RegisterFinish(s, sms_ok, db_ok) ==
    /\ sess[s] # Idle
    /\ LET a == sess[s]
           r == create_user_insert(a.phone, a.password, a.role_names, a.code,
                                   sms_ok, db_ok)
       IN  /\ users' = r.users
           /\ resp' = r.resp
    /\ sess' = [sess EXCEPT ![s] = Idle]
    /\ UNCHANGED <<roles, now>>

RequestedRoleNames == {<<>>, <<"Admin">>, <<"nurse">>}

NextRace ==
    \/ \E s \in Sessions, p \in Phones, c \in Codes, rn \in RequestedRoleNames :
          RegisterBegin(s, p, Password1, rn, c)
    \/ \E s \in Sessions, f \in Faults :
          RegisterFinish(s, f[1], f[2])
    \/ \E p \in Phones, c \in Codes : VerifyAccount(p, c, TRUE)

SpecRace == Init /\ [][NextRace]_vars

----------------------------------------------------------------------------
(* Registration next to role administration: both phones register, with    *)
(* role names that resolve, that do not, and that resolve to a role an     *)
(* administrator has deactivated                                           *)

RegisterRoleNames == {<<>>, <<"Admin">>, <<"nurse">>, <<"patient", "Nurse">>}

NextRegister ==
    \/ now = 0 /\ Tick
    \/ \E p \in Phones, c \in Codes, rn \in RegisterRoleNames, f \in Faults :
          Register(p, Password1, rn, c, f[1], f[2])
    \/ \E u \in UserIds : CreateRole(u, "Nurse", "Nurse", TRUE)
    \/ \E u \in UserIds, r \in 1..MaxRoles : DeleteRole(u, r, TRUE)
    \/ \E u \in UserIds, r \in 1..MaxRoles : UpdateRole(u, r, NULL, NULL, Some(TRUE), TRUE)

SpecRegister == Init /\ [][NextRegister]_vars

----------------------------------------------------------------------------
(* Concurrent role creations: each request runs create_role in a session   *)
(* of its own, the pre-check (lines 157-162) and the INSERT (lines 172-174) *)
(* being separate statements against the store                             *)

CreateRoleBegin(s, caller, name, display_name) ==
    LET op == "create_role"
    IN  /\ sess[s] = Idle
        /\ caller \in UserIds
        /\ Len(roles) < MaxRoles
        /\ IF ~get_admin_user(caller)
           THEN /\ resp' = AdminDenied(op)
                /\ sess' = sess
           ELSE IF ~create_role_precheck(name)
           THEN /\ resp' = Response(op, 400, RoleAlreadyExists, "none", "none")
                /\ sess' = sess
           ELSE /\ sess' = [sess EXCEPT ![s] =
                       [pc |-> "insert", name |-> name, display_name |-> display_name]]
                /\ resp' = resp
        /\ UNCHANGED <<users, roles, now>>

CreateRoleFinish(s, db_ok) ==
    /\ sess[s] # Idle
    /\ LET r == create_role_insert(sess[s].name, sess[s].display_name, db_ok)
       IN  /\ roles' = r.roles
           /\ resp' = r.resp
    /\ sess' = [sess EXCEPT ![s] = Idle]
    /\ UNCHANGED <<users, now>>

NewRoleNames == {"Admin", "nurse", "Nurse"}

NextRoleRace ==
    \/ \E p \in Phones, c \in Codes, rn \in {<<>>, <<"Admin">>} :
          Register(p, Password1, rn, c, TRUE, TRUE)
    \/ \E s \in Sessions, u \in UserIds, n \in NewRoleNames, d \in {"Nurse", "Ward nurse"} :
          CreateRoleBegin(s, u, n, d)
    \/ \E s \in Sessions, db_ok \in BOOLEAN : CreateRoleFinish(s, db_ok)
    \/ \E u \in UserIds, r \in 1..MaxRoles : DeleteRole(u, r, TRUE)

SpecRoleRace == Init /\ [][NextRoleRace]_vars

----------------------------------------------------------------------------
(* Role membership: an administrator and a second account, roles created,  *)
(* edited and deactivated, role lists assigned and removed that resolve in *)
(* whole, in part (a name after a valid one is unknown or deactivated) and *)
(* in another case                                                         *)

Code1 == [i \in 1..CODE_LENGTH |-> 1]

MemberRoleNames ==
    {<<"pharmacist">>, <<"pharmacist", "ghost">>, <<"pharmacist", "Nurse">>,
     <<"Nurse", "ghost">>}


NextRoles ==
    \/ Register(Phone1, Password1, <<"Admin">>, Code1, TRUE, TRUE)
    \/ Register(Phone2, Password1, <<>>, Code1, TRUE, TRUE)
    \/ \E u \in UserIds : CreateRole(u, "Nurse", "Ward nurse", TRUE)
    \/ \E u \in UserIds, r \in 1..MaxRoles, d \in DisplayNames, a \in Flags :
          UpdateRole(u, r, d, NULL, a, TRUE)
    \/ \E u \in UserIds, r \in 1..MaxRoles : DeleteRole(u, r, TRUE)
    \/ \E u \in UserIds, t \in 1..MaxUsers, rn \in MemberRoleNames :
          AssignUserRoles(u, t, rn, TRUE)
    \/ \E u \in UserIds, t \in 1..MaxUsers, rn \in MemberRoleNames :
          RemoveUserRoles(u, t, rn, TRUE)

SpecRoles == Init /\ [][NextRoles]_vars

----------------------------------------------------------------------------
(* The outcome of a response in the vocabulary of the specification:       *)
(* the service answers 400 for Conflict and for Invalid alike, and the     *)
(* detail tells them apart                                                 *)

ConflictDetails ==
    {AlreadyExists, "Account is already verified", RoleAlreadyExists}

ErrorKind(r) ==
    CASE r.status \in {200, 201} -> "Ok"
      [] r.status = 404 -> "NotFound"
      [] r.status = 403 -> "Forbidden"
      [] r.status = 401 -> "Unauthenticated"
      [] r.status = 500 -> "Unavailable"
      [] r.status = 400 /\ r.detail \in ConflictDetails -> "Conflict"
      [] OTHER -> "Invalid"

----------------------------------------------------------------------------
(* Steps as the properties below name them: the handler's transition,      *)
(* which names the handler in resp                                         *)

AnsweredBy(op) == resp'.op = op

VerifyStep(p, c, db_ok) ==
    AnsweredBy("verify_account") /\ VerifyAccount(p, c, db_ok)

SendStep(p, c, sms_ok, db_ok) ==
    AnsweredBy("send_account_verification_code")
      /\ SendVerificationCode(p, c, sms_ok, db_ok)

RequestResetStep(p, c, sms_ok, db_ok) ==
    AnsweredBy("request_password_reset") /\ RequestPasswordReset(p, c, sms_ok, db_ok)

ResetStep(p, c, w, db_ok) ==
    AnsweredBy("reset_password") /\ ResetPassword(p, c, w, db_ok)

\* the users of the table that their phone number finds
Registered == {u \in UserIds : get_user_by_phone(users[u].phone_number) = u}

----------------------------------------------------------------------------
(* C1: at most one user holds a phone number in every reachable state; a   *)
(* Register for a number already registered fails with Conflict and adds   *)
(* no row, also when the request passed the pre-check before the other     *)
(* request committed: its INSERT then fails and it surfaces Conflict.      *)

PhoneNumbersUnique ==
    \A i, j \in UserIds : users[i].phone_number = users[j].phone_number => i = j

C1_SecondRegisterConflicts ==
    AnsweredBy("create_user") =>
      /\ \A s \in Sessions, p \in Phones, c \in Codes, rn \in RequestedRoleNames :
            (get_user_by_phone(p) # 0 /\ RegisterBegin(s, p, Password1, rn, c))
              => /\ ErrorKind(resp') = "Conflict"
                 /\ users' = users
                 /\ sess'[s] = Idle
      /\ \A s \in Sessions, f \in Faults :
            (/\ sess[s] # Idle
             /\ get_user_by_phone(sess[s].phone) # 0
             /\ RegisterFinish(s, f[1], f[2]))
              => /\ ErrorKind(resp') = "Conflict"
                 /\ users' = users

\* C1: phone numbers stay unique and the second Register for a number ends in
\* Conflict, however the two requests interleave
C1_PhoneUniqueUnderRace ==
    /\ []PhoneNumbersUnique
    /\ [][C1_SecondRegisterConflicts]_vars

\* the request that lost the race: every session is done, and the last one
\* was refused by the store's constraint, not by the pre-check
C1_Witness ==
    /\ resp = Response("create_user", 400, AlreadyExists, "none", "failed")
    /\ \A s \in Sessions : sess[s] = Idle
    /\ Len(users) = 1

----------------------------------------------------------------------------
(* C2: VerifyAccount on an unverified user with the pending code, not      *)
(* expired, sets is_verified and clears the code and its expiry in one     *)
(* commit (never one without the others); with another code it fails with *)
(* Invalid and leaves the user as it was.                                  *)

C2_Step ==
    AnsweredBy("verify_account") =>
      \A u \in Registered :
        LET p == users[u].phone_number
            pending == users[u].verification_code
            expires == users[u].verification_code_expires
        IN  (~users[u].is_verified /\ ~IsNull(pending))
              => \A c \in Codes, db_ok \in BOOLEAN :
                    VerifyStep(p, c, db_ok)
                      => /\ (Val(pending) = c /\ Val(expires) >= now /\ db_ok)
                            => /\ users'[u].is_verified
                               /\ IsNull(users'[u].verification_code)
                               /\ IsNull(users'[u].verification_code_expires)
                               /\ ErrorKind(resp') = "Ok"
                         /\ Val(pending) # c
                            => /\ ErrorKind(resp') = "Invalid"
                               /\ users' = users
                         /\ \/ users' = users
                            \/ /\ users'[u].is_verified
                               /\ IsNull(users'[u].verification_code)
                               /\ IsNull(users'[u].verification_code_expires)

\* C2: every VerifyAccount step sets is_verified and clears both fields together,
\* or, on a mismatch, answers Invalid and changes nothing
C2_VerifyAccountSetsAndClears == [][C2_Step]_vars

C2_Witness ==
    /\ resp = Response("verify_account", 200, "Account verified successfully", "none", "ok")
    /\ \E u \in UserIds :
          /\ users[u].is_verified
          /\ IsNull(users[u].verification_code)
          /\ IsNull(users[u].verification_code_expires)

----------------------------------------------------------------------------
(* C3 as claimed: once an account is verified, submitting the code again   *)
(* fails with Invalid and changes nothing.                                 *)

C3_Original_Step ==
    AnsweredBy("verify_account") =>
      \A u \in Registered :
        users[u].is_verified
          => \A c \in Codes, db_ok \in BOOLEAN :
                VerifyStep(users[u].phone_number, c, db_ok)
                  => /\ ErrorKind(resp') = "Invalid"
                     /\ users' = users

\* C3 as claimed: every VerifyAccount step on a verified account answers Invalid
C3_Original_ResubmitInvalid == [][C3_Original_Step]_vars

(* C3 as amended: a successful verification clears the code and marks the  *)
(* account verified for good; every later VerifyAccount for that phone,    *)
(* with the same code or any other, fails with Conflict (the account is    *)
(* already verified) and changes nothing.                                  *)

C3_Step ==
    /\ AnsweredBy("verify_account") =>
         \A u \in Registered, c \in Codes, db_ok \in BOOLEAN :
            VerifyStep(users[u].phone_number, c, db_ok)
              => /\ users[u].is_verified
                    => /\ ErrorKind(resp') = "Conflict"
                       /\ resp'.detail = "Account is already verified"
                       /\ users' = users
                 /\ (~users[u].is_verified /\ ErrorKind(resp') = "Ok")
                    => /\ users'[u].is_verified
                       /\ IsNull(users'[u].verification_code)
    /\ \A u \in UserIds :
          users[u].is_verified => (u \in 1..Len(users') /\ users'[u].is_verified)

\* C3 as amended: every VerifyAccount step on a verified account answers Conflict
\* and changes nothing, and a verified account stays verified
C3_ResubmitConflict == [][C3_Step]_vars

C3_Witness ==
    /\ resp = Response("verify_account", 400, "Account is already verified", "none", "none")
    /\ \E u \in UserIds : users[u].is_verified /\ IsNull(users[u].verification_code)

----------------------------------------------------------------------------
(* C4 as claimed: a matching code whose expiry is at or before now is      *)
(* rejected by VerifyAccount and by ResetPassword, the state unchanged.    *)

C4_Original_Step ==
    \A u \in Registered :
        LET p == users[u].phone_number
            vc == users[u].verification_code
            rc == users[u].password_reset_token
        IN  /\ (/\ AnsweredBy("verify_account")
                /\ ~users[u].is_verified
                /\ ~IsNull(vc)
                /\ Val(users[u].verification_code_expires) <= now)
                 => \A db_ok \in BOOLEAN :
                       VerifyStep(p, Val(vc), db_ok)
                         => (ErrorKind(resp') = "Invalid" /\ users' = users)
            /\ (/\ AnsweredBy("reset_password")
                /\ ~IsNull(rc)
                /\ Val(users[u].password_reset_expires) <= now)
                 => \A w \in Passwords, db_ok \in BOOLEAN :
                       ResetStep(p, Val(rc), w, db_ok)
                         => (ErrorKind(resp') = "Invalid" /\ users' = users)

\* C4 as claimed: every step with a matching code whose expiry is <= now is rejected
C4_Original_ExpiredAtOrBeforeNow == [][C4_Original_Step]_vars

(* C4 as amended: a matching code whose expiry is strictly before now is   *)
(* rejected by VerifyAccount and by ResetPassword with Invalid, the state  *)
(* unchanged; a matching code whose expiry equals now is still accepted.   *)

C4_Step ==
    \A u \in Registered :
        LET p == users[u].phone_number
            vc == users[u].verification_code
            rc == users[u].password_reset_token
        IN  /\ (AnsweredBy("verify_account") /\ ~users[u].is_verified /\ ~IsNull(vc))
                 => \A db_ok \in BOOLEAN :
                       VerifyStep(p, Val(vc), db_ok)
                         => /\ Val(users[u].verification_code_expires) < now
                               => (ErrorKind(resp') = "Invalid" /\ users' = users)
                            /\ (Val(users[u].verification_code_expires) = now /\ db_ok)
                               => (ErrorKind(resp') = "Ok" /\ users'[u].is_verified)
            /\ (AnsweredBy("reset_password") /\ ~IsNull(rc))
                 => \A w \in Passwords, db_ok \in BOOLEAN :
                       ResetStep(p, Val(rc), w, db_ok)
                         => /\ Val(users[u].password_reset_expires) < now
                               => (ErrorKind(resp') = "Invalid" /\ users' = users)
                            /\ (Val(users[u].password_reset_expires) = now /\ db_ok)
                               => /\ ErrorKind(resp') = "Ok"
                                  /\ users'[u].password = hash_password(w)

\* C4 as amended: every step with a matching code is rejected when its expiry is
\* < now and accepted when its expiry is = now
C4_ExpiredStrictlyBeforeNow == [][C4_Step]_vars

\* a code rejected as expired although it is the pending one
C4_Witness ==
    \E u \in UserIds :
        /\ resp.detail \in {"Verification code has expired. Please request a new one.", "Reset code has expired. Please request a new one."}
        /\ \/ /\ resp.op = "verify_account"
              /\ ~IsNull(users[u].verification_code_expires)
              /\ Val(users[u].verification_code_expires) < now
           \/ /\ resp.op = "reset_password"
              /\ ~IsNull(users[u].password_reset_expires)
              /\ Val(users[u].password_reset_expires) < now

----------------------------------------------------------------------------
(* C5: SendVerificationCode on an unverified user, once committed, leaves  *)
(* exactly the freshly generated code pending, with expiry now + 10        *)
(* minutes, whatever was pending before and whatever the gateway does;     *)
(* VerifyAccount succeeds only with the code pending at that moment, so a  *)
(* superseded code that differs from the new one fails with Invalid.       *)

C5_Step ==
    \A u \in Registered :
        LET p == users[u].phone_number
        IN  ~users[u].is_verified
              => /\ AnsweredBy("send_account_verification_code")
                    => \A c \in Codes, sms_ok \in BOOLEAN :
                          SendStep(p, c, sms_ok, TRUE)
                            => users' = [users EXCEPT
                                   ![u].verification_code = Some(c),
                                   ![u].verification_code_expires = Some(now + 10)]
                 /\ AnsweredBy("verify_account")
                    => \A c \in Codes, db_ok \in BOOLEAN :
                          (users[u].verification_code # Some(c) /\ VerifyStep(p, c, db_ok))
                            => /\ ErrorKind(resp') = "Invalid"
                               /\ ~users'[u].is_verified
                               /\ users' = users

\* C5: every committed SendVerificationCode step leaves the new code with expiry
\* now + 10, and VerifyAccount rejects every code that is not the pending one
C5_SendSupersedes == [][C5_Step]_vars

\* a resend, later than the registration, has replaced the pending pair
C5_Witness ==
    /\ resp.op = "send_account_verification_code"
    /\ resp.commit = "ok"
    /\ now > 0
    /\ \E u \in UserIds :
          /\ ~users[u].is_verified
          /\ users[u].verification_code_expires = Some(now + 10)

----------------------------------------------------------------------------
(* C6: in every state reached by the service's operations, a verified      *)
(* user has no verification code and no verification expiry.               *)

C6_VerifiedHasNoCode ==
    \A u \in UserIds :
        users[u].is_verified
          => /\ IsNull(users[u].verification_code)
             /\ IsNull(users[u].verification_code_expires)

\* a verified user, with operations of every kind behind it
C6_Witness ==
    /\ \E u \in UserIds : users[u].is_verified /\ ~IsNull(users[u].password_reset_token)
    /\ Len(roles) > Len(default_roles)

----------------------------------------------------------------------------
(* C7: in every committed state each channel is paired (the code is NULL   *)
(* exactly when its expiry is), and no user is left with the verification  *)
(* code cleared while still unverified.                                    *)

----------------------------------------------------------------------------
(* What the caller of a request sees *)

Visible(r) == <<r.status, r.detail>>

(* C8 as claimed: RequestPasswordReset answers the same generic success    *)
(* message for an unregistered phone and for every registered one.         *)

C8_Original_Step ==
    AnsweredBy("request_password_reset") =>
      \A p \in Phones, c \in Codes, f \in Faults :
          RequestResetStep(p, c, f[1], f[2])
            => Visible(resp') = <<200, GenericResetMessage>>

C8_Step ==
    AnsweredBy("request_password_reset") =>
      \A p \in Phones, c \in Codes, f \in Faults :
          LET u == get_user_by_phone(p)
          IN  RequestResetStep(p, c, f[1], f[2])
                => IF u = 0 \/ users[u].is_active
                   THEN Visible(resp') = <<200, GenericResetMessage>>
                   ELSE ErrorKind(resp') = "Forbidden"

----------------------------------------------------------------------------
(* C9: RequestPasswordReset on an inactive account fails with Forbidden    *)
(* and stores nothing; on an active account, once committed, it stores the *)
(* generated six-digit code with expiry now + 15 minutes in place of any   *)
(* pending reset code, and touches nothing else.                           *)

SixDigits(code) == Len(code) = 6 /\ \A i \in 1..6 : code[i] \in 0..9

C9_Step ==
    AnsweredBy("request_password_reset") =>
      \A u \in Registered, c \in Codes, f \in Faults :
          RequestResetStep(users[u].phone_number, c, f[1], f[2])
            => /\ ~users[u].is_active
                  => (ErrorKind(resp') = "Forbidden" /\ users' = users)
               /\ (users[u].is_active /\ f[2])
                  => /\ users' = [users EXCEPT
                            ![u].password_reset_token = Some(c),
                            ![u].password_reset_expires = Some(now + 15)]
                     /\ SixDigits(Val(users'[u].password_reset_token))

\* C9: every RequestPasswordReset step on a registered phone refuses an inactive
\* account and stores the six-digit code with expiry now + 15 for an active one
C9_ResetRequest == [][C9_Step]_vars

\* refused for an inactive account that holds no reset code
C9_Witness ==
    /\ resp = Response("request_password_reset", 403, "Account is inactive", "none", "none")
    /\ \E u \in UserIds : ~users[u].is_active /\ IsNull(users[u].password_reset_token)

----------------------------------------------------------------------------
(* C10: ResetPassword fails with NotFound for an unknown phone and with    *)
(* Invalid when no reset code is pending, the code differs or its expiry   *)
(* is before now, the users table unchanged in each case; once committed   *)
(* it stores the hash of the new password and clears both reset fields,    *)
(* so the same code submitted again finds no pending code: Invalid.        *)

C10_Step ==
    AnsweredBy("reset_password") =>
      \A p \in Phones, c \in Codes, w \in Passwords, db_ok \in BOOLEAN :
          LET u == get_user_by_phone(p)
              rejected == \/ IsNull(users[u].password_reset_token)
                          \/ Val(users[u].password_reset_token) # c
                          \/ Val(users[u].password_reset_expires) < now
          IN  ResetStep(p, c, w, db_ok)
                => /\ u = 0 => (ErrorKind(resp') = "NotFound" /\ users' = users)
                   /\ (u # 0 /\ rejected)
                        => (ErrorKind(resp') = "Invalid" /\ users' = users)
                   /\ (u # 0 /\ ~rejected /\ db_ok)
                        => /\ ErrorKind(resp') = "Ok"
                           /\ users' = [users EXCEPT
                                  ![u].password = hash_password(w),
                                  ![u].password_reset_token = NULL,
                                  ![u].password_reset_expires = NULL]
                   /\ (u # 0 /\ ~rejected /\ ~db_ok) => users' = users

\* C10: every ResetPassword step is NotFound, Invalid or the committed reset that
\* stores the new hash and clears both reset fields
C10_ResetPassword == [][C10_Step]_vars

\* the used code submitted again: nothing is pending any more
C10_Witness ==
    /\ resp = Response("reset_password", 400, "No reset code found. Please request a new one.", "none", "none")
    /\ \E u \in UserIds :
          /\ users[u].password = hash_password(Password2)
          /\ IsNull(users[u].password_reset_token)
          /\ IsNull(users[u].password_reset_expires)

----------------------------------------------------------------------------
(* C11: ChangePassword with a current password that does not verify fails  *)
(* with Invalid and leaves the stored hash as it was; on success it        *)
(* replaces the hash and no other field of any user, and afterwards        *)
(* Authenticate returns the user for the new password and null for the old *)
(* one when the two differ.                                                *)

ChangeStep(u, cur, w, db_ok) ==
    AnsweredBy("change_password") /\ ChangePassword(u, cur, w, db_ok)

C11_Step ==
    AnsweredBy("change_password") =>
      \A u \in UserIds, cur \in Passwords, w \in Passwords, db_ok \in BOOLEAN :
          LET p == users[u].phone_number
          IN  ChangeStep(u, cur, w, db_ok)
                => /\ ~verify_password(cur, users[u].password)
                        => (ErrorKind(resp') = "Invalid" /\ users' = users)
                   /\ ErrorKind(resp') = "Ok"
                        => /\ verify_password(cur, users[u].password)
                           /\ users' = [users EXCEPT ![u].password = hash_password(w)]
                           /\ authenticate_user(p, w)' = [kind |-> "User", user |-> u]
                           /\ cur # w => authenticate_user(p, cur)'.kind = "None"
                   /\ ErrorKind(resp') # "Ok" => users' = users

----------------------------------------------------------------------------
(* C12: Authenticate returns null, and login answers the same response,    *)
(* both when no user has the phone and when the password does not match;   *)
(* when the matched user is inactive it fails with Forbidden whether the   *)
(* password is right or wrong; login issues a bearer token only when       *)
(* Authenticate returns a user.                                            *)

LoginStep(p, w) == AnsweredBy("login") /\ Login(p, w)

NoMatchResponse ==
    Response("login", 401, "Incorrect phone number or password", "none", "none")

C12_Step ==
    AnsweredBy("login") =>
      \A p \in Phones, w \in Passwords :
          LET u == get_user_by_phone(p)
              a == authenticate_user(p, w)
          IN  LoginStep(p, w)
                => /\ u = 0 => (a.kind = "None" /\ resp' = NoMatchResponse)
                   /\ (u # 0 /\ users[u].is_active /\ ~verify_password(w, users[u].password))
                        => (a.kind = "None" /\ resp' = NoMatchResponse)
                   /\ (u # 0 /\ ~users[u].is_active)
                        => (a.kind = "HTTPException" /\ ErrorKind(resp') = "Forbidden")
                   /\ a.kind = "None" => ErrorKind(resp') = "Unauthenticated"
                   /\ ErrorKind(resp') = "Ok" <=> a.kind = "User"
                   /\ a.kind = "User"
                        => /\ users[a.user].phone_number = p
                           /\ verify_password(w, users[a.user].password)
                   /\ users' = users

\* C12: every login step answers the one no-match response for an unknown phone
\* and for a wrong password, Forbidden for an inactive account whatever the
\* password, and a token exactly when Authenticate returned a user
C12_Login == [][C12_Step]_vars

\* an inactive account refused at login
C12_Witness ==
    /\ resp.op = "login"
    /\ ErrorKind(resp) = "Forbidden"
    /\ \E u \in UserIds :
          /\ ~users[u].is_active
          /\ \E w \in Passwords : verify_password(w, users[u].password)

----------------------------------------------------------------------------
(* Registration requests whose role names do not all resolve *)

\* some requested name is absent from the Role table or names an inactive role
Unresolved(role_names) ==
    \E i \in 1..Len(requested_roles(role_names)) :
        LET role == get_role_by_name(requested_roles(role_names)[i])
        IN  role = 0 \/ ~roles[role].is_active

RegisterStep(p, rn, c, sms_ok, db_ok) ==
    AnsweredBy("create_user") /\ Register(p, Password1, rn, c, sms_ok, db_ok)

(* C13: Register for an unregistered phone fails with NotFound whenever a  *)
(* requested role name is absent from the Role table or names a role with  *)
(* is_active = false.                                                      *)

C13_Step ==
    AnsweredBy("create_user") =>
      \A p \in Phones, rn \in RegisterRoleNames, c \in Codes, f \in Faults :
          (create_user_precheck(p) /\ Unresolved(rn) /\ RegisterStep(p, rn, c, f[1], f[2]))
            => ErrorKind(resp') = "NotFound"

\* C13: every Register step with a role name that does not resolve to an active
\* role answers NotFound
C13_UnresolvedRoleNotFound == [][C13_Step]_vars

----------------------------------------------------------------------------
(* C14: Register attaches roles atomically with the creation of the user:  *)
(* when a requested role name does not resolve, no user row and with it no *)
(* membership row is committed, the phone is still unregistered, and a     *)
(* later Register for it passes the duplicate checks.                      *)

C14_Step ==
    AnsweredBy("create_user") =>
      \A p \in Phones, rn \in RegisterRoleNames, c \in Codes, f \in Faults :
          (create_user_precheck(p) /\ Unresolved(rn) /\ RegisterStep(p, rn, c, f[1], f[2]))
            => /\ ErrorKind(resp') # "Ok"
               /\ users' = users
               /\ get_user_by_phone(p)' = 0
               /\ create_user_precheck(p)' /\ phone_unique(p)'

\* C14: every Register step whose roles do not resolve leaves the users table,
\* memberships included, as it was, and the phone free for a later Register
C14_RegisterAtomic == [][C14_Step]_vars

\* a registration refused for a deactivated role, with another account present
C14_Witness ==
    /\ resp = Response("create_user", 500, "An error occurred while creating user",
                       "none", "none")
    /\ \E r \in RoleIds : ~roles[r].is_active
    /\ Len(users) = 1

----------------------------------------------------------------------------
(* C15: a successful Register adds one user with is_active = true,         *)
(* is_verified = false, the generated six-digit code with expiry now + 10  *)
(* minutes, null reset fields, and as roles exactly the requested ones, or *)
(* exactly patient when no role names are given.                           *)

RoleNamesOf(user) == {roles[user.roles[i]].name : i \in 1..Len(user.roles)}

ExpectedRoleNames(rn) ==
    IF rn = <<>> THEN {"patient"} ELSE {lower(rn[i]) : i \in 1..Len(rn)}

C15_Step ==
    AnsweredBy("create_user") =>
      \A p \in Phones, rn \in RegisterRoleNames, c \in Codes, f \in Faults :
          (ErrorKind(resp') = "Ok" /\ RegisterStep(p, rn, c, f[1], f[2]))
            => LET k == Len(users) + 1
                   user == users'[k]
               IN  /\ Len(users') = k
                   /\ SubSeq(users', 1, k - 1) = users
                   /\ user.phone_number = p
                   /\ verify_password(Password1, user.password)
                   /\ user.is_active
                   /\ ~user.is_verified
                   /\ user.verification_code = Some(c)
                   /\ SixDigits(c)
                   /\ user.verification_code_expires = Some(now + 10)
                   /\ IsNull(user.password_reset_token)
                   /\ IsNull(user.password_reset_expires)
                   /\ NoDuplicates(user.roles)
                   /\ RoleNamesOf(user) = ExpectedRoleNames(rn)

\* C15: every successful Register step appends one active, unverified user with
\* the generated code, expiry now + 10, no reset code and exactly the requested
\* roles (patient when none was requested)
C15_RegisterCreates == [][C15_Step]_vars

\* registered after the clock moved, with two roles, one named in another case
C15_Witness ==
    /\ resp.op = "create_user"
    /\ resp.status = 201
    /\ now > 0
    /\ \E u \in UserIds :
          /\ RoleNamesOf(users[u]) = {"patient", "nurse"}
          /\ users[u].verification_code_expires = Some(now + 10)

----------------------------------------------------------------------------
(* C16: when the Notification Gateway fails during Register the failure is *)
(* swallowed: Register still returns the created user, and the user is     *)
(* committed with its verification code and its roles.                     *)

C16_Step ==
    AnsweredBy("create_user") =>
      \A p \in Phones, rn \in RegisterRoleNames, c \in Codes :
          (/\ create_user_precheck(p)
           /\ ~Unresolved(rn)
           /\ RegisterStep(p, rn, c, FALSE, TRUE))
            => LET u == get_user_by_phone(p)'
               IN  /\ resp'.status = 201
                   /\ resp'.sms = "failed"
                   /\ resp'.commit = "ok"
                   /\ u = Len(users) + 1
                   /\ users'[u].verification_code = Some(c)
                   /\ users'[u].verification_code_expires = Some(now + 10)
                   /\ RoleNamesOf(users'[u]) = ExpectedRoleNames(rn)

\* C16: every Register step in which the gateway fails still answers with the
\* created user, committed with its code and roles
C16_GatewayFailureSwallowed == [][C16_Step]_vars

\* created although the SMS was not sent
C16_Witness ==
    /\ resp.op = "create_user"
    /\ resp.status = 201
    /\ resp.sms = "failed"
    /\ \E u \in UserIds :
          /\ ~IsNull(users[u].verification_code)
          /\ Len(users[u].roles) > 0

----------------------------------------------------------------------------
(* C17: a failure of the Notification Gateway is never propagated:         *)
(* SendVerificationCode and RequestPasswordReset each answer their success *)
(* outcome also when the SMS dispatch fails after the new code has been    *)
(* committed.                                                              *)

C17_Step ==
    /\ AnsweredBy("send_account_verification_code")
         => \A p \in Phones, c \in Codes :
               (/\ SendStep(p, c, FALSE, TRUE)
                /\ resp'.commit = "ok"
                /\ resp'.sms = "failed")
                 => /\ ErrorKind(resp') = "Ok"
                    /\ resp'.detail = "Verification code sent successfully"
    /\ AnsweredBy("request_password_reset")
         => \A p \in Phones, c \in Codes :
               (/\ RequestResetStep(p, c, FALSE, TRUE)
                /\ resp'.commit = "ok"
                /\ resp'.sms = "failed")
                 => /\ ErrorKind(resp') = "Ok"
                    /\ resp'.detail = GenericResetMessage

\* C17: every SendVerificationCode or RequestPasswordReset step whose dispatch
\* fails after the commit still answers the operation's success outcome
C17_GatewayFailureNotPropagated == [][C17_Step]_vars

----------------------------------------------------------------------------
(* C18: in Register, SendVerificationCode and RequestPasswordReset the SMS *)
(* is dispatched only after the transaction that stored the code has       *)
(* committed, the dispatched code is the stored one, and a failed dispatch *)
(* rolls nothing back: the new code and its expiry stay stored.            *)

\* after the step: the gateway was called only past the commit, with the code
\* that user p now holds in the channel, whatever the gateway answered
DispatchedAfterCommit(p, c, channel) ==
    LET u == get_user_by_phone(p)'
    IN  /\ resp'.commit # "ok" => (resp'.sms = "none" /\ IsNull(resp'.text))
        /\ resp'.sms # "none"
             => /\ resp'.commit = "ok"
                /\ resp'.text = Some(<<p, c>>)
                /\ u # 0
                /\ IF channel = "verification"
                   THEN /\ users'[u].verification_code = Some(c)
                        /\ users'[u].verification_code_expires = Some(now + 10)
                   ELSE /\ users'[u].password_reset_token = Some(c)
                        /\ users'[u].password_reset_expires = Some(now + 15)

C18_Step ==
    /\ AnsweredBy("create_user")
         => \A w \in Passwords, c \in Codes, f \in Faults :
               (AnsweredBy("create_user") /\ Register(Phone1, w, <<>>, c, f[1], f[2]))
                 => /\ DispatchedAfterCommit(Phone1, c, "verification")
                    /\ (f[2] /\ create_user_precheck(Phone1)) => resp'.sms # "none"
    /\ AnsweredBy("send_account_verification_code")
         => \A p \in Phones, c \in Codes, f \in Faults :
               SendStep(p, c, f[1], f[2])
                 => /\ DispatchedAfterCommit(p, c, "verification")
                    /\ (f[2] /\ get_user_by_phone(p) # 0 /\ ~users[get_user_by_phone(p)].is_verified)
                          => resp'.sms = SmsOutcome(f[1])
    /\ AnsweredBy("request_password_reset")
         => \A p \in Phones, c \in Codes, f \in Faults :
               RequestResetStep(p, c, f[1], f[2])
                 => /\ DispatchedAfterCommit(p, c, "reset")
                    /\ (f[2] /\ get_user_by_phone(p) # 0) => resp'.sms = SmsOutcome(f[1])

\* C18: every Register, SendVerificationCode and RequestPasswordReset step calls
\* the gateway only after its commit, with the stored code, and keeps the code
\* and expiry stored when the gateway fails
C18_DispatchAfterCommit == [][C18_Step]_vars

\* the gateway failed on a reset code that is stored all the same
C18_Witness ==
    /\ resp.op = "request_password_reset"
    /\ resp.sms = "failed"
    /\ resp.commit = "ok"
    /\ \E u \in UserIds :
          /\ ~IsNull(resp.text)
          /\ users[u].password_reset_token = Some(Val(resp.text)[2])
          /\ users[u].phone_number = Val(resp.text)[1]

----------------------------------------------------------------------------
(* C19: system roles can never be edited or deactivated: UpdateRole and    *)
(* DeleteRole on a role with is_system_role = true fail with Forbidden and *)
(* change nothing, so the five seeded roles keep is_system_role = true,    *)
(* is_active = true, their name, display name and description through     *)
(* every sequence of operations.                                           *)

SystemRolesAsSeeded ==
    \A i \in 1..Len(default_roles) :
        /\ i \in RoleIds
        /\ roles[i] = default_roles[i]
        /\ roles[i].is_system_role
        /\ roles[i].is_active

\* the step is a refusal with Forbidden that changes nothing
RefusedForbidden ==
    /\ ErrorKind(resp') = "Forbidden"
    /\ roles' = roles
    /\ users' = users

\* a step of UpdateRole or DeleteRole is such a refusal, or its target is no
\* system role
C19_Step ==
    /\ AnsweredBy("update_role")
         => \/ RefusedForbidden
            \/ \A u \in UserIds, r \in RoleIds, d \in DisplayNames, a \in Flags :
                  (AnsweredBy("update_role") /\ UpdateRole(u, r, d, NULL, a, TRUE))
                    => ~roles[r].is_system_role
    /\ AnsweredBy("delete_role")
         => \/ RefusedForbidden
            \/ \A u \in UserIds, r \in RoleIds :
                  (AnsweredBy("delete_role") /\ DeleteRole(u, r, TRUE))
                    => ~roles[r].is_system_role

\* C19: the seeded system roles stay as seeded in every reachable state, and
\* every UpdateRole or DeleteRole step on a system role answers Forbidden and
\* changes nothing
C19_SystemRolesProtected ==
    /\ []SystemRolesAsSeeded
    /\ [][C19_Step]_vars

\* an administrator refused on a system role, while another role is deactivated
C19_Witness ==
    /\ resp.status = 403
    /\ resp.detail \in {"Cannot modify system roles", "Cannot delete system roles"}
    /\ \E r \in RoleIds : ~roles[r].is_system_role /\ ~roles[r].is_active

----------------------------------------------------------------------------
(* C20: CreateRole fails with Conflict when a role with the same name      *)
(* ignoring case exists, active or not, and otherwise stores the name      *)
(* lowercased with is_system_role = false and is_active = true; role names *)
(* are pairwise distinct ignoring case in every reachable state, also when *)
(* two CreateRole requests for one name interleave.                        *)

RoleNamesDistinct ==
    \A i, j \in RoleIds : lower(roles[i].name) = lower(roles[j].name) => i = j

\* a role, active or not, is stored under the name ignoring case
NameTaken(name) == \E i \in RoleIds : lower(roles[i].name) = lower(name)

C20_Step ==
    AnsweredBy("create_role") =>
      /\ \A s \in Sessions, u \in UserIds, n \in NewRoleNames, d \in {"Nurse", "Ward nurse"} :
            (/\ get_admin_user(u)
             /\ NameTaken(n)
             /\ CreateRoleBegin(s, u, n, d))
              => /\ ErrorKind(resp') = "Conflict"
                 /\ roles' = roles
                 /\ sess'[s] = Idle
      /\ \A s \in Sessions, db_ok \in BOOLEAN :
            (sess[s] # Idle /\ CreateRoleFinish(s, db_ok))
              => IF NameTaken(sess[s].name)
                 THEN ErrorKind(resp') = "Conflict" /\ roles' = roles
                 ELSE IF db_ok
                 THEN /\ ErrorKind(resp') = "Ok"
                      /\ roles' = Append(roles,
                            [name |-> lower(sess[s].name),
                             display_name |-> sess[s].display_name,
                             description |-> "",
                             is_system_role |-> FALSE,
                             is_active |-> TRUE])
                 ELSE roles' = roles

\* C20: role names stay pairwise distinct ignoring case, and every CreateRole
\* step for a taken name answers Conflict while every other committed one stores
\* the lowercased name as an active, non-system role
C20_RoleNamesUnique ==
    /\ []RoleNamesDistinct
    /\ [][C20_Step]_vars

\* the request that lost the race for a name, refused by the store's constraint
C20_Witness ==
    /\ resp = Response("create_role", 400, RoleAlreadyExists, "none", "failed")
    /\ \A s \in Sessions : sess[s] = Idle
    /\ \E r \in RoleIds : roles[r].name = "nurse" /\ ~roles[r].is_system_role

----------------------------------------------------------------------------
(* Membership requests as the properties below name them *)

AssignStep(u, t, rn) ==
    AnsweredBy("assign_user_roles") /\ AssignUserRoles(u, t, rn, TRUE)

RemoveStep(u, t, rn) ==
    AnsweredBy("remove_user_roles") /\ RemoveUserRoles(u, t, rn, TRUE)

\* the ids of the roles a user holds, and the ids the names stand for
RoleIdsOf(user) == {user.roles[i] : i \in 1..Len(user.roles)}

Named(rn) == {get_role_by_name(rn[i]) : i \in 1..Len(rn)}

AllExist(rn) == 0 \notin Named(rn)

AllActive(rn) == \A r \in Named(rn) : r # 0 => roles[r].is_active

(* C21 as claimed: assigning roles the user already holds leaves the role  *)
(* set unchanged without error.                                            *)

C21_Original_Step ==
    AnsweredBy("assign_user_roles") =>
      \A u \in UserIds, t \in UserIds, rn \in MemberRoleNames :
          (/\ get_admin_user(u)
           /\ AllExist(rn)
           /\ Named(rn) \subseteq RoleIdsOf(users[t])
           /\ AssignStep(u, t, rn))
            => (ErrorKind(resp') = "Ok" /\ users' = users)

\* C21 as claimed: every step that assigns roles the user already holds answers
\* without error and leaves the role set as it was
C21_Original_AssignHeldNoError == [][C21_Original_Step]_vars

(* C21 as amended: assigning active roles the user already holds leaves    *)
(* the role set unchanged without error, and removing roles the user does  *)
(* not hold is a no-op without error; after a successful assignment every  *)
(* named role is held once, after a successful removal none is, so either  *)
(* operation applied twice gives the role set of applying it once; and     *)
(* pharmacist assigned to a user holding {patient} gives exactly           *)
(* {patient, pharmacist}. Assigning a held role that has been deactivated  *)
(* fails with Invalid, the role set unchanged.                             *)

C21_Step ==
    /\ AnsweredBy("assign_user_roles")
         => \A u \in UserIds, t \in UserIds, rn \in MemberRoleNames :
               (get_admin_user(u) /\ AssignStep(u, t, rn))
                 => /\ (/\ AllExist(rn)
                        /\ AllActive(rn)
                        /\ Named(rn) \subseteq RoleIdsOf(users[t]))
                         => (ErrorKind(resp') = "Ok" /\ users' = users)
                    /\ (/\ AllExist(rn)
                        /\ ~AllActive(rn)
                        /\ Named(rn) \subseteq RoleIdsOf(users[t]))
                         => (ErrorKind(resp') = "Invalid" /\ users' = users)
                    /\ ErrorKind(resp') = "Ok"
                         => /\ RoleIdsOf(users'[t]) = RoleIdsOf(users[t]) \cup Named(rn)
                            /\ NoDuplicates(users'[t].roles)
                            /\ AllExist(rn) /\ AllActive(rn)
                    /\ (RoleNamesOf(users[t]) = {"patient"} /\ rn = <<"pharmacist">>)
                         => RoleNamesOf(users'[t]) = {"patient", "pharmacist"}
    /\ AnsweredBy("remove_user_roles")
         => \A u \in UserIds, t \in UserIds, rn \in MemberRoleNames :
               (get_admin_user(u) /\ RemoveStep(u, t, rn))
                 => /\ (AllExist(rn) /\ Named(rn) \cap RoleIdsOf(users[t]) = {})
                         => (ErrorKind(resp') = "Ok" /\ users' = users)
                    /\ ErrorKind(resp') = "Ok"
                         => /\ RoleIdsOf(users'[t]) = RoleIdsOf(users[t]) \ Named(rn)
                            /\ NoDuplicates(users'[t].roles)
                            /\ AllExist(rn)

\* C21 as amended: every step that assigns held active roles or removes unheld
\* roles is a no-op without error, and every successful step leaves the named
\* roles all held once, or none held
C21_MembershipIdempotent == [][C21_Step]_vars

\* pharmacist assigned to the user that held patient alone, and assigned again
C21_Witness ==
    /\ resp = Response("assign_user_roles", 200, "assigned", "none", "ok")
    /\ \E t \in UserIds : users[t].roles = <<get_role_by_name("patient"),
                                              get_role_by_name("pharmacist")>>

----------------------------------------------------------------------------
(* C22: AssignRolesToUser fails with NotFound when a named role does not   *)
(* exist and with Invalid when a named role is inactive (the first name of *)
(* the list that fails decides when both occur), RemoveRolesFromUser fails *)
(* with NotFound when a named role does not exist, and in every such case  *)
(* the user's role set is unchanged, also when earlier names of the same   *)
(* request were valid.                                                     *)

C22_Step ==
    /\ AnsweredBy("assign_user_roles")
         => \A u \in UserIds, t \in UserIds, rn \in MemberRoleNames :
               (get_admin_user(u) /\ AssignStep(u, t, rn))
                 => /\ (~AllExist(rn) /\ AllActive(rn)) => ErrorKind(resp') = "NotFound"
                    /\ (AllExist(rn) /\ ~AllActive(rn)) => ErrorKind(resp') = "Invalid"
                    /\ (~AllExist(rn) \/ ~AllActive(rn))
                         => /\ ErrorKind(resp') \in {"NotFound", "Invalid"}
                            /\ users' = users
    /\ AnsweredBy("remove_user_roles")
         => \A u \in UserIds, t \in UserIds, rn \in MemberRoleNames :
               (get_admin_user(u) /\ RemoveStep(u, t, rn))
                 => (~AllExist(rn) => (ErrorKind(resp') = "NotFound" /\ users' = users))

----------------------------------------------------------------------------
(* C23: the role guard admits a user for the required role X exactly when  *)
(* the user holds a role whose name is X ignoring case and which is        *)
(* active; otherwise it fails with Forbidden, so a held role that is       *)
(* inactive does not count and a user without roles is always rejected.    *)

HoldsActive(u, x) ==
    \E r \in RoleIdsOf(users[u]) : lower(roles[r].name) = lower(x) /\ roles[r].is_active

C23_Step ==
    /\ AnsweredBy("require_role")
         => \A u \in UserIds, x \in GuardedRoleNames :
               (AnsweredBy("require_role") /\ RequireRole(u, x))
                 => /\ ErrorKind(resp') = "Ok" <=> HoldsActive(u, x)
                    /\ ~HoldsActive(u, x) => ErrorKind(resp') = "Forbidden"
                    /\ users[u].roles = <<>> => ErrorKind(resp') = "Forbidden"
    /\ AnsweredBy("delete_role")
         => \A u \in UserIds, r \in 1..MaxRoles :
               (AnsweredBy("delete_role") /\ DeleteRole(u, r, TRUE))
                 => /\ ~HoldsActive(u, "admin")
                         => (ErrorKind(resp') = "Forbidden" /\ roles' = roles)
                    /\ ErrorKind(resp') = "Ok" => HoldsActive(u, "admin")

\* C23: every guarded step lets the caller through exactly when the caller holds
\* an active role of the required name, ignoring case, and answers Forbidden
\* otherwise
C23_RoleGuard == [][C23_Step]_vars

\* rejected for the one role the user holds, which has been deactivated
C23_Witness ==
    /\ resp = Response("require_role", 403, "nurse", "none", "none")
    /\ \E u \in UserIds :
          /\ Len(users[u].roles) = 1
          /\ roles[users[u].roles[1]].name = "nurse"
          /\ ~roles[users[u].roles[1]].is_active

-----------------------------------------------------------------------------
(* app/core/security.py: create_access_token; app/core/dependencies.py:    *)
(* get_current_user.  A token is what its three parts decide: whether it   *)
(* parses and carries a signature made with SECRET_KEY, its exp claim and  *)
(* its sub claim, a string or absent                                       *)

\* str(user.id) for the ids the users table can hold, and one beyond
StrTable == <<"1", "2", "3", "4", "5">>

str(n) == StrTable[n]

\* int(user_id_str): the integer a string denotes, surrounding white space
\* allowed; ValueError (NULL here) for any other string
int(s) ==
    IF \E n \in DOMAIN StrTable : s = StrTable[n]
    THEN Some(CHOOSE n \in DOMAIN StrTable : s = StrTable[n])
    ELSE IF s = " 2" THEN Some(2) ELSE NULL

create_access_token(user_id) ==
    [sig |-> "valid", exp |-> now + ACCESS_TOKEN_EXPIRE_MINUTES, sub |-> Some(str(user_id))]

\* the decoding that accepts a token past its exp
jwt_decode_exp_unchecked(token) ==
    IF token.sig # "valid" THEN "JWTError" ELSE "payload"

\* jwt.decode: the signature first, then the exp claim
jwt_decode(token) ==
    IF token.sig # "valid" THEN "JWTError"
    ELSE IF token.exp < now THEN "ExpiredSignatureError"
    ELSE "payload"

Unauthorized(detail) == [kind |-> "HTTPException", status |-> 401, detail |-> detail, user |-> 0]

\* the gate that turns away the tokens of a user with a password reset pending
get_current_user_unless_reset_pending(token) ==
    LET decoded == jwt_decode(token)
    IN  IF decoded = "ExpiredSignatureError"
        THEN Unauthorized("Token has expired. Please login again.")
        ELSE IF decoded = "JWTError"
        THEN Unauthorized("JWT Error")
        ELSE IF IsNull(token.sub)
        THEN Unauthorized("Token missing user ID")
        ELSE IF IsNull(int(Val(token.sub)))
        THEN Unauthorized("Invalid user ID in token")
        ELSE IF Val(int(Val(token.sub))) \notin UserIds
        THEN Unauthorized("User not found. The token may be invalid.")
        ELSE IF ~IsNull(users[Val(int(Val(token.sub)))].password_reset_token)
        THEN Unauthorized("Could not validate credentials")
        ELSE [kind |-> "User", status |-> 200, detail |-> "", user |-> Val(int(Val(token.sub)))]

get_current_user(token) ==
    LET decoded == jwt_decode(token)
    IN  IF decoded = "ExpiredSignatureError"
        THEN Unauthorized("Token has expired. Please login again.")
        ELSE IF decoded = "JWTError"
        THEN Unauthorized("JWT Error")
        ELSE IF IsNull(token.sub)
        THEN Unauthorized("Token missing user ID")
        ELSE IF IsNull(int(Val(token.sub)))
        THEN Unauthorized("Invalid user ID in token")
        ELSE IF Val(int(Val(token.sub))) \notin UserIds
        THEN Unauthorized("User not found. The token may be invalid.")
        ELSE [kind |-> "User", status |-> 200, detail |-> "", user |-> Val(int(Val(token.sub)))]

\* app/users/routes.py: get_current_user_info, GET /users/me; the response
\* carries the phone number of the user the gate returned
GetCurrentUserInfo(token) ==
    LET op == "get_current_user_info"
        g == get_current_user(token)
    IN  /\ resp' = IF g.kind = "User"
                   THEN Response(op, 200, users[g.user].phone_number, "none", "none")
                   ELSE Response(op, g.status, g.detail, "none", "none")
        /\ UNCHANGED <<users, roles, now, sess>>

\* the tokens presented: well signed, signed with another key or not a
\* token at all; issued now or long ago; any subject
Subjects == {NULL, Some("abc"), Some(" 2")} \cup {Some(str(n)) : n \in 1..(MaxUsers + 1)}

Tokens ==
    {create_access_token(u) : u \in UserIds}
    \cup [sig : {"valid", "forged", "malformed"},
          exp : {TickMinutes + 1, now + ACCESS_TOKEN_EXPIRE_MINUTES},
          sub : Subjects]

NextGate ==
    \/ Tick
    \/ \E p \in Phones : Register(p, Password1, <<>>, Code1, TRUE, TRUE)
    \/ \E t \in Tokens : GetCurrentUserInfo(t)

SpecGate == Init /\ [][NextGate]_vars

-----------------------------------------------------------------------------
(* C24: the Access Control Gate returns a user only for a token with a     *)
(* valid signature, not expired, whose subject is numeric and the id of an *)
(* existing user, and then returns that user; every other token is         *)
(* answered Unauthenticated and nothing else                               *)

Numeric(sub) == ~IsNull(sub) /\ ~IsNull(int(Val(sub)))

Acceptable(t) ==
    /\ t.sig = "valid"
    /\ t.exp >= now
    /\ Numeric(t.sub)
    /\ Val(int(Val(t.sub))) \in UserIds

C24_Step ==
    AnsweredBy("get_current_user_info") =>
        \A t \in Tokens :
            GetCurrentUserInfo(t) =>
                IF Acceptable(t)
                THEN /\ ErrorKind(resp') = "Ok"
                     /\ resp'.detail = users[Val(int(Val(t.sub)))].phone_number
                ELSE ErrorKind(resp') = "Unauthenticated"

C24_AccessControlGate == [][C24_Step]_vars

\* with two users registered and old tokens expired, the gate returned
\* the second user
C24_Witness ==
    /\ Len(users) = 2
    /\ now > TickMinutes + 1
    /\ resp.op = "get_current_user_info"
    /\ resp.status = 200
    /\ resp.detail = users[2].phone_number

-----------------------------------------------------------------------------
(* app/users/services.py: initialize_default_roles, run by main.py before  *)
(* the application is created, on whatever the roles table then holds      *)

\* lines 321-331: each default with no row under its name is added
initialize_default_roles ==
    roles \o SelectSeq(default_roles, LAMBDA d : get_role_by_name(d.name) = 0)

\* lines 333-336: a failing commit is rolled back and printed, and startup
\* goes on
Startup(db_ok) ==
    /\ roles' = IF db_ok THEN initialize_default_roles ELSE roles
    /\ resp' = Response("startup", 0, "", "none", IF db_ok THEN "ok" ELSE "failed")
    /\ UNCHANGED <<users, now, sess>>

\* main.py: the routes are served once the seeding has run
Running == resp.op # "none"

\* rows a roles table may hold before the first run: a custom role, and a
\* role under a default name that is not the default row
NurseRow == Role("nurse", "Ward nurse", "", FALSE)

PatientRow ==
    [Role("patient", "Client", "", FALSE) EXCEPT !.is_active = FALSE]

TablesBeforeStartup ==
    {<<>>, <<NurseRow>>, <<PatientRow>>, <<PatientRow, NurseRow>>, default_roles}

InitSeed ==
    /\ users = <<>>
    /\ roles \in TablesBeforeStartup
    /\ now = 0
    /\ resp = Response("none", 0, "", "none", "none")
    /\ sess = [s \in Sessions |-> Idle]

NextSeed ==
    \/ \E db_ok \in BOOLEAN : Startup(db_ok)
    \/ Running /\ Register(Phone1, Password1, <<"Admin">>, Code1, TRUE, TRUE)
    \/ Running /\ \E u \in UserIds : CreateRole(u, "Nurse", "Ward nurse", TRUE)
    \/ Running /\ \E u \in UserIds, r \in 1..MaxRoles, d \in DisplayNames, a \in Flags :
          UpdateRole(u, r, d, NULL, a, TRUE)
    \/ Running /\ \E u \in UserIds, r \in 1..MaxRoles : DeleteRole(u, r, TRUE)

SpecSeed == InitSeed /\ [][NextSeed]_vars

-----------------------------------------------------------------------------
(* C25: after startup seeding the roles admin, healthcare_professional,    *)
(* patient, caretaker and pharmacist all exist; a row already present,     *)
(* under one of those names or another, is left as it was; and seeding     *)
(* again changes nothing                                                   *)

SeededNames == {"admin", "healthcare_professional", "patient", "caretaker", "pharmacist"}

C25_AllExist ==
    \A n \in SeededNames : \E i \in 1..Len(roles') : roles'[i].name = n

C25_Unmodified ==
    /\ Len(roles') >= Len(roles)
    /\ \A i \in 1..Len(roles) : roles'[i] = roles[i]

C25_AgainNothing == initialize_default_roles' = roles'

C25_Step ==
    AnsweredBy("startup") =>
        \A db_ok \in BOOLEAN :
            Startup(db_ok) => C25_AllExist /\ C25_Unmodified /\ C25_AgainNothing

C25_SeedingEnsuresRoles == [][C25_Step]_vars

-----------------------------------------------------------------------------
(* app/users/routes.py: the router.  A handler is registered by the        *)
(* decorator @router.<method>(path); line 252 calls router.post(...) as a  *)
(* statement, without the @, so the function defined under it is not       *)
(* registered                                                              *)

router ==
    {"register_user", "login", "get_current_user_info", "get_user",
     "create_new_role", "list_roles", "get_role", "update_role_endpoint",
     "delete_role_endpoint", "assign_user_roles", "remove_user_roles",
     "resend_verification_code", "forgot_password", "reset_user_password",
     "change_user_password"}

\* POST /users/verify-account as the application answers it: the handler
\* when it is registered; otherwise the path matches only GET /users/{user_id}
\* and the router answers 405
PostVerifyAccount(phone, verification_code, db_ok) ==
    IF "verify_user_account" \in router
    THEN VerifyAccount(phone, verification_code, db_ok)
    ELSE /\ resp' = Response("verify_user_account", 405, "Method Not Allowed", "none", "none")
         /\ UNCHANGED <<users, roles, now, sess>>

\* the account lifecycle through the registered routes
NextPublic ==
    \/ Tick
    \/ \E w \in Passwords, c \in Codes, f \in Faults :
          Register(Phone1, w, <<>>, c, f[1], f[2])
    \/ \E p \in Phones, c \in Codes, f \in Faults :
          SendVerificationCode(p, c, f[1], f[2])
    \/ \E p \in Phones, c \in Codes, db_ok \in BOOLEAN :
          PostVerifyAccount(p, c, db_ok)
    \/ \E p \in Phones, c \in Codes, f \in Faults :
          RequestPasswordReset(p, c, f[1], f[2])
    \/ \E p \in Phones, c \in Codes, w \in Passwords, db_ok \in BOOLEAN :
          ResetPassword(p, c, w, db_ok)
    \/ \E u \in UserIds, cur \in Passwords, w \in Passwords, db_ok \in BOOLEAN :
          ChangePassword(u, cur, w, db_ok)
    \/ \E p \in Phones, w \in Passwords : Login(p, w)

SpecPublic == Init /\ [][NextPublic]_vars

-----------------------------------------------------------------------------
(* C26: every operation of the public surface is registered on the router; *)
(* verify-account is reachable: a registered, unverified user who submits  *)
(* the stored code before it expires, the store committing, is verified    *)

PublicSurface ==
    {"register_user", "login", "verify_user_account", "resend_verification_code",
     "forgot_password", "reset_user_password", "change_user_password"}

C26_Step ==
    AnsweredBy("verify_user_account") \/ AnsweredBy("verify_account") =>
        \A u \in Registered, c \in Codes :
            ( /\ PostVerifyAccount(users[u].phone_number, c, TRUE)
              /\ ~users[u].is_verified
              /\ users[u].verification_code = Some(c)
              /\ Val(users[u].verification_code_expires) > now )
            => /\ PublicSurface \subseteq router
               /\ users'[u].is_verified

C26_VerifyAccountReachable == [][C26_Step]_vars

-----------------------------------------------------------------------------
(* Role administration: an administrator and a second user, a custom role  *)
(* created, given to the users, updated field by field and deactivated     *)

Descriptions == {NULL, Some("Night shift")}

NextRoleAdmin ==
    \/ Register(Phone1, Password1, <<"Admin">>, Code1, TRUE, TRUE)
    \/ Register(Phone2, Password1, <<>>, Code1, TRUE, TRUE)
    \/ \E u \in UserIds : CreateRole(u, "Nurse", "Ward nurse", TRUE)
    \/ \E u \in UserIds, t \in 1..MaxUsers : AssignUserRoles(u, t, <<"Nurse">>, TRUE)
    \/ \E u \in UserIds, r \in 1..MaxRoles, d \in DisplayNames, n \in Descriptions,
          a \in Flags, db_ok \in BOOLEAN :
          UpdateRole(u, r, d, n, a, db_ok)
    \/ \E u \in UserIds, r \in 1..MaxRoles, db_ok \in BOOLEAN : DeleteRole(u, r, db_ok)

SpecRoleAdmin == Init /\ [][NextRoleAdmin]_vars

-----------------------------------------------------------------------------
(* C27: no role-administration operation removes a role row or changes a   *)
(* role's name or is_system_role; DeleteRole on a custom role only sets    *)
(* is_active to false, the row and every membership kept; UpdateRole on a  *)
(* custom role changes only the supplied fields among display_name,        *)
(* description and is_active; both answer NotFound and change nothing for  *)
(* a role id that does not exist                                           *)

RowsKept ==
    /\ Len(roles') >= Len(roles)
    /\ \A i \in RoleIds :
          /\ roles'[i].name = roles[i].name
          /\ roles'[i].is_system_role = roles[i].is_system_role

OtherRolesSame(r) == \A i \in RoleIds \ {r} : roles'[i] = roles[i]

Supplied(old, given) == IF IsNull(given) THEN old ELSE Val(given)

Admins == {u \in UserIds : get_admin_user(u)}

CustomRoles == {r \in RoleIds : ~roles[r].is_system_role}

C27_DeleteStep ==
    AnsweredBy("delete_role") =>
        /\ \A u \in Admins, r \in (1..MaxRoles) \ RoleIds, db_ok \in BOOLEAN :
              DeleteRole(u, r, db_ok) =>
                  ErrorKind(resp') = "NotFound" /\ roles' = roles /\ users' = users
        /\ ErrorKind(resp') = "Ok" =>
              \A u \in Admins, r \in CustomRoles :
                  DeleteRole(u, r, TRUE) =>
                      /\ roles' = [roles EXCEPT ![r].is_active = FALSE]
                      /\ users' = users

C27_UpdateStep ==
    AnsweredBy("update_role") =>
        /\ \A u \in Admins, r \in (1..MaxRoles) \ RoleIds, d \in DisplayNames,
              n \in Descriptions, a \in Flags, db_ok \in BOOLEAN :
              UpdateRole(u, r, d, n, a, db_ok) =>
                  ErrorKind(resp') = "NotFound" /\ roles' = roles /\ users' = users
        /\ ErrorKind(resp') = "Ok" =>
              \A u \in Admins, r \in CustomRoles, d \in DisplayNames,
                 n \in Descriptions, a \in Flags :
                  UpdateRole(u, r, d, n, a, TRUE) =>
                      /\ Len(roles') = Len(roles)
                      /\ OtherRolesSame(r)
                      /\ roles'[r].display_name = Supplied(roles[r].display_name, d)
                      /\ roles'[r].description = Supplied(roles[r].description, n)
                      /\ roles'[r].is_active = Supplied(roles[r].is_active, a)
                      /\ users' = users

C27_Step == RowsKept /\ C27_DeleteStep /\ C27_UpdateStep

C27_RoleAdministrationFrame == [][C27_Step]_vars

\* a custom role two users hold was given a description, the display name
\* left alone, and then deactivated
C27_Witness ==
    /\ resp.op = "delete_role"
    /\ resp.status = 200
    /\ \E r \in RoleIds :
          /\ roles[r].name = "nurse"
          /\ ~roles[r].is_active
          /\ roles[r].description = "Night shift"
          /\ roles[r].display_name = "Ward nurse"
          /\ \A u \in UserIds : Len(users) = 2 /\ InSeq(r, users[u].roles)

-----------------------------------------------------------------------------
(* C28: the verification channel and the reset channel are independent:    *)
(* RequestPasswordReset and ResetPassword leave verification_code,         *)
(* verification_code_expires and is_verified of every user unchanged;      *)
(* SendVerificationCode and VerifyAccount leave password_reset_token,      *)
(* password_reset_expires and the password hash unchanged                  *)

VerificationChannelSame ==
    /\ Len(users') = Len(users)
    /\ \A u \in UserIds :
          /\ users'[u].verification_code = users[u].verification_code
          /\ users'[u].verification_code_expires = users[u].verification_code_expires
          /\ users'[u].is_verified = users[u].is_verified

ResetChannelSame ==
    /\ Len(users') = Len(users)
    /\ \A u \in UserIds :
          /\ users'[u].password_reset_token = users[u].password_reset_token
          /\ users'[u].password_reset_expires = users[u].password_reset_expires
          /\ users'[u].password = users[u].password

C28_Step ==
    /\ AnsweredBy("request_password_reset") \/ AnsweredBy("reset_password")
          => VerificationChannelSame
    /\ AnsweredBy("send_account_verification_code") \/ AnsweredBy("verify_account")
          => ResetChannelSame

C28_ChannelsIndependent == [][C28_Step]_vars

\* a password was reset while the verification code was still pending, and
\* the account is still unverified with that code
C28_Witness ==
    /\ resp.op = "reset_password"
    /\ resp.status = 200
    /\ \E u \in UserIds :
          /\ ~users[u].is_verified
          /\ ~IsNull(users[u].verification_code)
          /\ users[u].password = hash_password(Password2)
          /\ IsNull(users[u].password_reset_token)

-----------------------------------------------------------------------------
(* Concurrent requests on one user: each runs its handler in a session of  *)
(* its own.  A handler reads the row (services.py 345, 386), checks it,    *)
(* assigns the columns it changes on its own copy, and db.commit() writes  *)
(* those columns to the row by id (367, 423); nothing locks the row or     *)
(* reads it again between the check and the commit                         *)

SendBegin(s, phone, code) ==
    /\ sess[s] = Idle
    /\ LET u == get_user_by_phone(phone)
       IN  IF u = 0 \/ users[u].is_verified
           THEN \* refused before any write
                SendVerificationCode(phone, code, TRUE, TRUE)
           ELSE /\ sess' = [sess EXCEPT ![s] =
                       [pc |-> "send", user |-> u, code |-> code,
                        expires_at |-> now + VERIFICATION_CODE_EXPIRE_MINUTES,
                        read_code |-> users[u].verification_code]]
                /\ UNCHANGED <<users, roles, now, resp>>

\* the UPDATE the session flushes: a column is written when the value
\* assigned differs from the value read; the expiry, a reading of the clock,
\* always does
flush_verification_code(row, a) ==
    IF Some(a.code) = a.read_code
    THEN [row EXCEPT !.verification_code_expires = Some(a.expires_at)]
    ELSE with_verification_code(row, a.code, a.expires_at)

\* UPDATE users SET verification_code, verification_code_expires WHERE id
SendCommit(s) ==
    /\ sess[s].pc = "send"
    /\ LET a == sess[s]
       IN  /\ users' = [users EXCEPT ![a.user] = flush_verification_code(@, a)]
           /\ resp' = send_sms(
                         Response("send_account_verification_code", 200,
                                  "Verification code sent successfully", "sent", "ok"),
                         users[a.user].phone_number, a.code)
    /\ sess' = [sess EXCEPT ![s] = Idle]
    /\ UNCHANGED <<roles, now>>

VerifyBegin(s, phone, verification_code) ==
    /\ sess[s] = Idle
    /\ LET u == get_user_by_phone(phone)
       IN  IF \/ u = 0
              \/ already_verified(users[u])
              \/ IsNull(users[u].verification_code)
              \/ ~verification_code_matches(users[u], verification_code)
              \/ verification_code_expired(users[u])
           THEN \* refused before any write
                VerifyAccount(phone, verification_code, TRUE)
           ELSE /\ sess' = [sess EXCEPT ![s] = [pc |-> "verify", user |-> u]]
                /\ UNCHANGED <<users, roles, now, resp>>

\* UPDATE users SET is_verified, verification_code, verification_code_expires
\* WHERE id
VerifyCommit(s) ==
    /\ sess[s].pc = "verify"
    /\ users' = [users EXCEPT ![sess[s].user] = verified(@)]
    /\ resp' = Response("verify_account", 200, "Account verified successfully", "none", "ok")
    /\ sess' = [sess EXCEPT ![s] = Idle]
    /\ UNCHANGED <<roles, now>>

NextVerifyRace ==
    \/ Tick
    \/ \E c \in Codes : Register(Phone1, Password1, <<>>, c, TRUE, TRUE)
    \/ \E s \in Sessions, p \in Phones, c \in Codes : SendBegin(s, p, c)
    \/ \E s \in Sessions : SendCommit(s)
    \/ \E s \in Sessions, p \in Phones, c \in Codes : VerifyBegin(s, p, c)
    \/ \E s \in Sessions : VerifyCommit(s)

SpecVerifyRace == Init /\ [][NextVerifyRace]_vars

-----------------------------------------------------------------------------
(* C29: a verified user has neither a verification code nor its expiry,    *)
(* also when SendVerificationCode and VerifyAccount run concurrently on    *)
(* the same user with their steps interleaved in any order                 *)

C29_VerifiedHasNoCodeUnderRace ==
    \A u \in UserIds :
        users[u].is_verified =>
            /\ IsNull(users[u].verification_code)
            /\ IsNull(users[u].verification_code_expires)

-----------------------------------------------------------------------------
(* C30: no lifecycle operation sets a user's is_active to false: every     *)
(* user is active in every reachable state, and neither Authenticate nor   *)
(* RequestPasswordReset ever answers Forbidden                             *)

C30_UsersStayActive ==
    /\ \A u \in UserIds : users[u].is_active
    /\ resp.op \in {"login", "request_password_reset"} => ErrorKind(resp) # "Forbidden"

\* a user whose password was replaced passed the is_active check of
\* authenticate_user and logged in
C30_Witness ==
    /\ resp.op = "login"
    /\ resp.status = 200
    /\ \E u \in UserIds :
          /\ users[u].is_active
          /\ users[u].password = hash_password(Password2)

-----------------------------------------------------------------------------
(* Clients holding the bearer token that login returned: a session keeps   *)
(* the token and presents it to the guarded routes                         *)

\* routes.py login, the client keeping the access_token of the response
LoginAs(s, phone_number, password) ==
    LET op == "login"
        a == authenticate_user(phone_number, password)
    IN  /\ sess[s].pc \in {"idle", "bearer"}
        /\ resp' = CASE a.kind = "HTTPException"
                          -> Response(op, 403, "Account is inactive. Please contact support.",
                                      "none", "none")
                      [] a.kind = "None"
                          -> Response(op, 401, "Incorrect phone number or password",
                                      "none", "none")
                      [] OTHER
                          -> Response(op, 200, "bearer", "none", "none")
        /\ sess' = IF a.kind = "User"
                   THEN [sess EXCEPT ![s] =
                            [pc |-> "bearer", token |-> create_access_token(a.user)]]
                   ELSE sess
        /\ UNCHANGED <<users, roles, now>>

\* GET /users/me with the session's token
GetCurrentUserInfoAs(s) ==
    /\ sess[s].pc = "bearer"
    /\ GetCurrentUserInfo(sess[s].token)

\* an endpoint behind Depends(require_role(role_name)), called with the
\* session's token: get_current_user first, then the role check
RequireRoleAs(s, role_name) ==
    /\ sess[s].pc = "bearer"
    /\ LET g == get_current_user(sess[s].token)
       IN  IF g.kind = "User"
           THEN RequireRole(g.user, role_name)
           ELSE /\ resp' = Response("require_role", g.status, g.detail, "none", "none")
                /\ UNCHANGED <<users, roles, now, sess>>

\* the clock moving past the lifetime of every token issued so far, once,
\* after the short steps
TokenLifetimePasses ==
    /\ now <= MaxNow
    /\ now + TickMinutes > MaxNow
    /\ now' = now + ACCESS_TOKEN_EXPIRE_MINUTES + TickMinutes
    /\ UNCHANGED <<users, roles, resp, sess>>

NextToken ==
    \/ Tick
    \/ TokenLifetimePasses
    \/ Register(Phone1, Password1, <<>>, Code1, TRUE, TRUE)
    \/ \E p \in Phones, c \in Codes : VerifyAccount(p, c, TRUE)
    \/ \E s \in Sessions, p \in Phones, w \in Passwords : LoginAs(s, p, w)
    \/ \E s \in Sessions : GetCurrentUserInfoAs(s)
    \/ \E s \in Sessions, n \in GuardedRoleNames : RequireRoleAs(s, n)

SpecToken == Init /\ [][NextToken]_vars

-----------------------------------------------------------------------------
(* C31: login and the Access Control Gate do not depend on is_verified: a  *)
(* registered user who never verified logs in with the correct password    *)
(* and gets a token, and that token is admitted by the authenticated-user  *)
(* guard and by the role guards of the roles the user holds                *)

Unverified == {u \in Registered : ~users[u].is_verified}

\* the user a session's token names, 0 when there is none
Bearer(s) ==
    IF sess[s].pc = "bearer" /\ sess[s].token.exp >= now
       /\ Val(int(Val(sess[s].token.sub))) \in UserIds
    THEN Val(int(Val(sess[s].token.sub)))
    ELSE 0

C31_LoginStep ==
    AnsweredBy("login") =>
        \A s \in Sessions, u \in Unverified, w \in Passwords :
            ( /\ users[u].password = hash_password(w)
              /\ LoginAs(s, users[u].phone_number, w) )
            => /\ ErrorKind(resp') = "Ok"
               /\ sess'[s].pc = "bearer"
               /\ sess'[s].token.sig = "valid"
               /\ sess'[s].token.exp > now
               /\ sess'[s].token.sub = Some(str(u))

C31_GateStep ==
    AnsweredBy("get_current_user_info") =>
        \A s \in Sessions :
            GetCurrentUserInfoAs(s) /\ Bearer(s) \in Unverified
                => /\ ErrorKind(resp') = "Ok"
                   /\ resp'.detail = users[Bearer(s)].phone_number

C31_RoleStep ==
    AnsweredBy("require_role") =>
        \A s \in Sessions, n \in GuardedRoleNames :
            ( /\ Bearer(s) \in Unverified
              /\ HoldsActive(Bearer(s), n)
              /\ RequireRoleAs(s, n) )
            => ErrorKind(resp') = "Ok"

C31_Step == C31_LoginStep /\ C31_GateStep /\ C31_RoleStep

-----------------------------------------------------------------------------
(* The guarded routes called with a session's token: get_current_user      *)
(* resolves the token to the caller, then the handler runs behind its      *)
(* guard (Depends(get_admin_user), which depends on get_current_user)      *)

\* the user get_current_user resolves a session's token to
Caller(s) == get_current_user(sess[s].token).user

Authenticated(s, op, Handled) ==
    /\ sess[s].pc = "bearer"
    /\ LET g == get_current_user(sess[s].token)
       IN  IF g.kind = "User"
           THEN Handled
           ELSE /\ resp' = Response(op, g.status, g.detail, "none", "none")
                /\ UNCHANGED <<users, roles, now, sess>>

\* registration open to anyone, with the role names of the request, and
\* role administration by whoever logged in
OpenRoleNames == {<<>>, <<"Admin">>, <<"nurse">>}

NextOpenRegister ==
    \/ \E p \in Phones, rn \in OpenRoleNames : Register(p, Password1, rn, Code1, TRUE, TRUE)
    \/ \E s \in Sessions, p \in Phones : LoginAs(s, p, Password1)
    \/ \E s \in Sessions :
          Authenticated(s, "create_role", CreateRole(Caller(s), "Nurse", "Ward nurse", TRUE))
    \/ \E s \in Sessions, r \in 1..MaxRoles, a \in Flags :
          Authenticated(s, "update_role", UpdateRole(Caller(s), r, NULL, NULL, a, TRUE))
    \/ \E s \in Sessions, r \in 1..MaxRoles :
          Authenticated(s, "delete_role", DeleteRole(Caller(s), r, TRUE))
    \/ \E s \in Sessions, t \in 1..MaxUsers :
          Authenticated(s, "assign_user_roles",
                        AssignUserRoles(Caller(s), t, <<"Nurse">>, TRUE))
    \/ \E s \in Sessions, t \in 1..MaxUsers :
          Authenticated(s, "remove_user_roles",
                        RemoveUserRoles(Caller(s), t, <<"Nurse">>, TRUE))

SpecOpenRegister == Init /\ [][NextOpenRegister]_vars

-----------------------------------------------------------------------------
(* C32: Register checks no authorization on the requested roles: a         *)
(* registration by anyone that names existing active roles, admin          *)
(* included, creates a user holding them; after login that user passes the *)
(* admin guard of CreateRole, UpdateRole, DeleteRole, AssignRolesToUser    *)
(* and RemoveRolesFromUser                                                 *)

AdminOps ==
    {"create_role", "update_role", "delete_role", "assign_user_roles", "remove_user_roles"}

C32_RegisterStep ==
    AnsweredBy("create_user") =>
        \A p \in Phones, rn \in OpenRoleNames :
            ( /\ get_user_by_phone(p) = 0
              /\ AllExist(rn) /\ AllActive(rn)
              /\ Register(p, Password1, rn, Code1, TRUE, TRUE) )
            => /\ ErrorKind(resp') = "Ok"
               /\ Len(users') = Len(users) + 1
               /\ RoleNamesOf(users'[Len(users')]) = ExpectedRoleNames(rn)

\* the session whose request this step answers holds the token of a user
\* who holds the active admin role
C32_AdminStep ==
    resp'.op \in AdminOps /\ (\A s \in Sessions : Bearer(s) # 0 => HoldsActive(Bearer(s), "admin"))
        => /\ resp' # AdminDenied(resp'.op)
           /\ ErrorKind(resp') # "Unauthenticated"

C32_Step == C32_RegisterStep /\ C32_AdminStep

C32_RegisterGrantsAnyRole == [][C32_Step]_vars

\* the only user there is registered as admin, logged in and created a role
C32_Witness ==
    /\ Len(users) = 1
    /\ \E s \in Sessions : Bearer(s) = 1
    /\ resp.op = "create_role"
    /\ resp.status = 201

-----------------------------------------------------------------------------
(* Tokens next to role administration: users log in, and while they hold   *)
(* their tokens an administrator creates a custom role, assigns and        *)
(* removes it, deactivates and reactivates it                              *)

Activity == {Some(TRUE), Some(FALSE)}

NextRoleToken ==
    \/ now = 0 /\ Tick
    \/ Register(Phone1, Password1, <<"Admin">>, Code1, TRUE, TRUE)
    \/ \E rn \in {<<>>, <<"nurse">>} : Register(Phone2, Password1, rn, Code1, TRUE, TRUE)
    \/ \E s \in Sessions, p \in Phones : LoginAs(s, p, Password1)
    \/ \E s \in Sessions, n \in GuardedRoleNames : RequireRoleAs(s, n)
    \/ \E u \in UserIds : CreateRole(u, "Nurse", "Ward nurse", TRUE)
    \/ \E u \in UserIds, t \in 1..MaxUsers : AssignUserRoles(u, t, <<"Nurse">>, TRUE)
    \/ \E u \in UserIds, t \in 1..MaxUsers : RemoveUserRoles(u, t, <<"Nurse">>, TRUE)
    \/ \E u \in UserIds, r \in 1..MaxRoles, a \in Activity :
          UpdateRole(u, r, NULL, NULL, a, TRUE)
    \/ \E u \in UserIds, r \in 1..MaxRoles : DeleteRole(u, r, TRUE)

SpecRoleToken == Init /\ [][NextRoleToken]_vars

-----------------------------------------------------------------------------
(* C33: role checks are evaluated against the current directory, not the   *)
(* token: with a token issued earlier, the guard for role X answers        *)
(* Forbidden once X was removed from the user or soft-deleted, and admits  *)
(* again once X was reactivated through UpdateRole, without any            *)
(* re-assignment, because the soft delete keeps the membership             *)

Holders(r) == {u \in UserIds : InSeq(r, users[u].roles)}

\* the guard follows the directory as it is at the request
C33_GuardStep ==
    AnsweredBy("require_role") =>
        \A s \in Sessions, n \in GuardedRoleNames :
            Bearer(s) # 0 /\ RequireRoleAs(s, n) =>
                ErrorKind(resp') = IF HoldsActive(Bearer(s), n) THEN "Ok" ELSE "Forbidden"

\* a soft delete leaves the holders without the role, the membership kept
C33_DeleteStep ==
    AnsweredBy("delete_role") /\ ErrorKind(resp') = "Ok" =>
        \A r \in CustomRoles :
            roles[r].is_active /\ ~roles'[r].is_active =>
                /\ users' = users
                /\ \A u \in Holders(r) : ~HoldsActive(u, roles[r].name)'

\* a reactivation gives the role back to its holders
C33_UpdateStep ==
    AnsweredBy("update_role") /\ ErrorKind(resp') = "Ok" =>
        \A a \in Admins, r \in CustomRoles :
            ~roles[r].is_active /\ UpdateRole(a, r, NULL, NULL, Some(TRUE), TRUE) =>
                /\ users' = users
                /\ \A u \in Holders(r) : HoldsActive(u, roles[r].name)'

\* a removal leaves the user without the role
C33_RemoveStep ==
    AnsweredBy("remove_user_roles") /\ ErrorKind(resp') = "Ok" =>
        \A u \in UserIds :
            users'[u] # users[u] => ~HoldsActive(u, "nurse")'

C33_Step == C33_GuardStep /\ C33_DeleteStep /\ C33_UpdateStep /\ C33_RemoveStep

C33_RoleChecksFollowDirectory == [][C33_Step]_vars

\* a token issued earlier is refused by the guard of a role its user still
\* holds, the role having been soft-deleted since
C33_Witness ==
    /\ resp.op = "require_role"
    /\ resp.status = 403
    /\ resp.detail = "nurse"
    /\ \E s \in Sessions, r \in CustomRoles :
          /\ Bearer(s) # 0
          /\ sess[s].token.exp < now + ACCESS_TOKEN_EXPIRE_MINUTES
          /\ roles[r].name = "nurse"
          /\ ~roles[r].is_active
          /\ Bearer(s) \in Holders(r)

-----------------------------------------------------------------------------
(* Tokens next to password changes: a user logs in with the password of    *)
(* the registration, and the password is then changed or reset while the   *)
(* sessions keep their tokens                                              *)

NextRevoke ==
    \/ Tick
    \/ TokenLifetimePasses
    \/ Register(Phone1, Password1, <<>>, Code1, TRUE, TRUE)
    \/ \E s \in Sessions, p \in Phones : LoginAs(s, p, Password1)
    \/ \E s \in Sessions : GetCurrentUserInfoAs(s)
    \/ \E p \in Phones : RequestPasswordReset(p, Code1, TRUE, TRUE)
    \/ \E p \in Phones, c \in Codes : ResetPassword(p, c, Password2, TRUE)
    \/ \E u \in UserIds, cur \in Passwords : ChangePassword(u, cur, Password2, TRUE)

SpecRevoke == Init /\ [][NextRevoke]_vars

-----------------------------------------------------------------------------
(* C34: a token issued by login stays admitted by the Access Control Gate  *)
(* until its own expiry, whatever ChangePassword or ResetPassword did to   *)
(* its user since: no lifecycle operation revokes issued tokens            *)

TokenHolders == {s \in Sessions : sess[s].pc = "bearer"}

\* login issues a token that lives ACCESS_TOKEN_EXPIRE_MINUTES
C34_LoginStep ==
    AnsweredBy("login") =>
        \A s \in Sessions :
            sess'[s] # sess[s] =>
                /\ sess'[s].pc = "bearer"
                /\ sess'[s].token.exp = now + ACCESS_TOKEN_EXPIRE_MINUTES

\* the gate admits a held token exactly until its expiry
C34_GateStep ==
    AnsweredBy("get_current_user_info") =>
        \A s \in TokenHolders :
            GetCurrentUserInfoAs(s) =>
                ErrorKind(resp') = IF sess[s].token.exp >= now THEN "Ok" ELSE "Unauthenticated"

\* no other request touches a token or what the gate makes of it
C34_KeepStep ==
    ~AnsweredBy("login") =>
        /\ sess' = sess
        /\ now' = now =>
              \A s \in TokenHolders :
                  get_current_user(sess[s].token)' = get_current_user(sess[s].token)

C34_Step == C34_LoginStep /\ C34_GateStep /\ C34_KeepStep

C34_TokensNotRevoked == [][C34_Step]_vars

\* a token issued under the first password was admitted after the password
\* had been replaced and a new reset was pending
C34_Witness ==
    /\ resp.op = "get_current_user_info"
    /\ resp.status = 200
    /\ \E s \in TokenHolders :
          /\ Bearer(s) # 0
          /\ users[Bearer(s)].password = hash_password(Password2)
          /\ ~IsNull(users[Bearer(s)].password_reset_token)

-----------------------------------------------------------------------------
(* Requests whose role list repeats a name, identically or in another case *)

RepeatedDefault == {<<>>, <<"patient", "patient">>, <<"patient", "PATIENT">>}

RepeatedNurse == {<<"nurse">>, <<"nurse", "nurse">>, <<"Nurse", "nurse">>}

NextRepeat ==
    \/ Register(Phone1, Password1, <<"Admin">>, Code1, TRUE, TRUE)
    \/ \E rn \in RepeatedDefault : Register(Phone2, Password1, rn, Code1, TRUE, TRUE)
    \/ \E u \in UserIds : CreateRole(u, "Nurse", "Ward nurse", TRUE)
    \/ \E u \in UserIds, t \in 1..MaxUsers, rn \in RepeatedNurse :
          AssignUserRoles(u, t, rn, TRUE)
    \/ \E u \in UserIds, t \in 1..MaxUsers : RemoveUserRoles(u, t, <<"nurse">>, TRUE)

SpecRepeat == Init /\ [][NextRepeat]_vars

-----------------------------------------------------------------------------
(* C35: the user-role relation never holds the same (user, role) pair      *)
(* twice, and repetition does not make an assignment fail: an assignment   *)
(* or a registration whose role list names the same not-yet-held role more *)
(* than once, identically or differing only in case, adds that role        *)
(* exactly once and succeeds                                               *)

PairsOnce(user) == Cardinality(RoleIdsOf(user)) = Len(user.roles)

C35_RegisterStep ==
    AnsweredBy("create_user") =>
        \A rn \in RepeatedDefault :
            ( /\ get_user_by_phone(Phone2) = 0
              /\ AllExist(rn) /\ AllActive(rn)
              /\ Register(Phone2, Password1, rn, Code1, TRUE, TRUE) )
            => /\ ErrorKind(resp') = "Ok"
               /\ Len(users') = Len(users) + 1
               /\ RoleNamesOf(users'[Len(users')]) = ExpectedRoleNames(rn)

C35_AssignStep ==
    AnsweredBy("assign_user_roles") =>
        \A u \in Admins, t \in UserIds, rn \in RepeatedNurse :
            ( /\ AllExist(rn) /\ AllActive(rn)
              /\ AssignUserRoles(u, t, rn, TRUE) )
            => /\ ErrorKind(resp') = "Ok"
               /\ RoleIdsOf(users'[t]) = RoleIdsOf(users[t]) \cup Named(rn)

C35_Step ==
    /\ \A u \in UserIds : PairsOnce(users[u])
    /\ C35_RegisterStep
    /\ C35_AssignStep

C35_RepeatedNamesAssignedOnce == [][C35_Step]_vars

-----------------------------------------------------------------------------
(* C36: every user created by Register that is still unverified has a      *)
(* non-null verification code and expiry in every reachable state, so      *)
(* VerifyAccount never answers such a user that no code is pending, and an *)
(* unverified user can always recover: after SendVerificationCode has      *)
(* stored a new code, a verify-account request carrying that code before   *)
(* it expires, the store committing, verifies the user                     *)

C36_CodePending ==
    \A u \in Unverified :
        /\ ~IsNull(users[u].verification_code)
        /\ ~IsNull(users[u].verification_code_expires)

C36_RejectionStep ==
    AnsweredBy("verify_user_account") \/ AnsweredBy("verify_account") =>
        resp'.detail # "No verification code found. Please request a new one."

C36_RecoverStep ==
    (resp.op = "send_account_verification_code" /\ resp.commit = "ok") =>
        \A u \in Unverified, c \in Codes :
            ( /\ users[u].verification_code = Some(c)
              /\ Val(users[u].verification_code_expires) > now
              /\ PostVerifyAccount(users[u].phone_number, c, TRUE) )
            => users'[u].is_verified

C36_Step ==
    /\ C36_CodePending
    /\ C36_RejectionStep
    /\ C36_RecoverStep

C36_UnverifiedCanRecover == [][C36_Step]_vars

====
